---- MODULE Spec2Model ----
(***************************************************************************)
(* A model of stratstats.py: the sqlite store (teams, hitters, pitchers),  *)
(* the record editor of MainWindow, the team administration of             *)
(* ConfigWindow and the report of PrintStatsWindow.                        *)
(*                                                                         *)
(* Representation.                                                         *)
(*  - A table is the sequence of its rows in rowid order, which is the     *)
(*    order a SELECT without ORDER BY scans it in.                         *)
(*  - A player name is a sequence of one-character strings, so that        *)
(*    first_name[0], truthiness and comparison are computed, not assumed.  *)
(*  - The text of a numeric form field is a string; safe_int / safe_float  *)
(*    parse it.                                                            *)
(*  - A fractional column (ip, ipa) holds a number of tenths: 61 is 6.1.   *)
(*  - A formatted rate (".267", "0.00") is a string.                       *)
(*  - A report table is the sequence of its player rows and its totals     *)
(*    row; a row is a record with one field per printed column (column     *)
(*    padding is not modelled).                                            *)
(*                                                                         *)
(* Specifications.                                                         *)
(*  - Spec: the editor and the team administration, from an empty store.   *)
(*  - SpecReport: the report, opened over a store filled earlier.          *)
(*  - SpecBrowse: the player list, loadPlayerData, saveData and the        *)
(*    report button, over such a store.                                    *)
(*  - SpecRates: the rates shown for one record, in the list and the       *)
(*    report.                                                              *)
(*  - SpecList: the order and the content of the player list.              *)
(*  - SpecStartup: the start of the application, the store opening or not. *)
(*  - SpecMistyped: saveData on sheets with a malformed or negative field. *)
(*  - SpecLoad: clicks on list entries, over rosters whose players share   *)
(*    an initial and a last name or have a blank in the last name.         *)
(*  - SpecSinks: the preview and the file export of an open report window, *)
(*    with saves and team deletions in between.                            *)
(*  - SpecSchema: create_tables and update_database_schema over store      *)
(*    files with any subset of the tables and columns.                     *)
(***************************************************************************)
EXTENDS Integers, Sequences, FiniteSets, TLC

(***************************************************************************)
(* Bounds of the exploration.                                              *)
(***************************************************************************)
MaxTeamId == 2     \* createTeam is explored while the new id stays within this
MaxRecords == 2    \* an INSERT is explored while hitters and pitchers together
                   \* hold fewer rows than this
MaxRateCount == 16      \* the rates are explored for hits, at-bats and earned
                        \* runs up to this
MaxListRecords == 3     \* the player list is explored over stores of at most
                        \* this many hitter and pitcher rows together
MaxReportRecords == 3   \* a report is explored over stores of at most this
                        \* many hitter and pitcher rows together

(***************************************************************************)
(* What the user types.                                                    *)
(***************************************************************************)
\* the names typed into "New Team Name"
TeamNames == {"A", "B"}

\* the names typed into the First Name and Last Name fields
PlayerNames ==
  { [first_name |-> <<"A", "l">>, last_name |-> <<"B", "a">>],
    [first_name |-> <<"B", "o">>, last_name |-> <<"A", "b">>] }

\* the counter columns of hitters, in the order saveData reads and writes them
HitterCounters ==
  <<"games", "ab", "aba", "hits", "runs", "doubles", "triples", "hr", "rbi",
    "k", "bb", "sb", "cs", "gidp", "err">>

\* the counter columns of pitchers, in the order saveData reads and writes them
PitcherCounters ==
  <<"games", "st", "ip", "ipa", "wins", "losses", "saves", "holds", "hits",
    "er", "hr", "k", "bb", "wp", "err">>

\* the pitcher form fields read with safe_float
PitcherFloatFields == {"ip", "ipa"}

Range(s) == {s[i] : i \in 1..Len(s)}

\* a hitter sheet with every counter filled in: AB=10, H=3
HitterSheetFull ==
  [games |-> "4", ab |-> "10", aba |-> "30", hits |-> "3", runs |-> "2",
   doubles |-> "1", triples |-> "1", hr |-> "1", rbi |-> "2", k |-> "3",
   bb |-> "2", sb |-> "1", cs |-> "1", gidp |-> "1", err |-> "1"]

\* a hitter sheet with other counters and the triples left blank: AB=20, H=5
HitterSheetGap ==
  [games |-> "7", ab |-> "20", aba |-> "40", hits |-> "5", runs |-> "3",
   doubles |-> "2", triples |-> "", hr |-> "2", rbi |-> "4", k |-> "6",
   bb |-> "3", sb |-> "2", cs |-> "1", gidp |-> "2", err |-> "1"]

\* the texts typed into the counter fields of the hitter form
HitterSheets == {HitterSheetFull, HitterSheetGap}

\* a pitcher sheet with every counter filled in: IP=6.1, ER=2
PitcherSheetFull ==
  [games |-> "3", st |-> "1", ip |-> "6.1", ipa |-> "50.0", wins |-> "1",
   losses |-> "1", saves |-> "1", holds |-> "1", hits |-> "5", er |-> "2",
   hr |-> "1", k |-> "4", bb |-> "2", wp |-> "1", err |-> "1"]

\* a pitcher sheet with other counters and the saves left blank: IP=12, ER=5
PitcherSheetGap ==
  [games |-> "5", st |-> "2", ip |-> "12", ipa |-> "60.2", wins |-> "2",
   losses |-> "1", saves |-> "", holds |-> "1", hits |-> "9", er |-> "5",
   hr |-> "2", k |-> "9", bb |-> "4", wp |-> "2", err |-> "1"]

\* the texts typed into the counter fields of the pitcher form
PitcherSheets == {PitcherSheetFull, PitcherSheetGap}

(***************************************************************************)
(* Conversions.                                                            *)
(***************************************************************************)
\* the integers whose decimal literal int() is asked to parse in this model
IntLiterals == -9..99

\* int(text) for every text int() accepts: the literal of n parses to n
IntOfText ==
  [t \in {ToString(n) : n \in IntLiterals} |->
     CHOOSE n \in IntLiterals : ToString(n) = t]

\* a conversion that keeps the digits before a decimal point
safe_intOfLeadingDigits(value) ==
  IF value \in DOMAIN IntOfText THEN IntOfText[value]
  ELSE IF value = "1.5" THEN 1
  ELSE 0

\* safe_int: int(value), or 0 when int() raises ValueError or TypeError
safe_int(value) == IF value \in DOMAIN IntOfText THEN IntOfText[value] ELSE 0

\* the tenths whose literal with one fractional digit float() is asked to parse
FloatLiterals == 0..699

\* str(x) of a non-negative float x that is n tenths: "6.1", "12.0"
FloatText(n) == ToString(n \div 10) \o "." \o ToString(n % 10)

\* float(text) in tenths for every text float() accepts: "6.1" is 61 tenths,
\* and an integer literal is a whole number of innings
FloatOfText ==
  [t \in {FloatText(n) : n \in FloatLiterals} \cup DOMAIN IntOfText |->
     IF t \in DOMAIN IntOfText
     THEN 10 * IntOfText[t]
     ELSE CHOOSE n \in FloatLiterals : FloatText(n) = t]

\* safe_float: float(value), or 0.0 when float() raises ValueError or TypeError
safe_float(value) ==
  IF value \in DOMAIN FloatOfText THEN FloatOfText[value] ELSE 0

RECURSIVE Pow10(_)
Pow10(d) == IF d = 0 THEN 1 ELSE 10 * Pow10(d - 1)

\* the decimal digits of n, zero-padded on the left to d digits
RECURSIVE Pad(_, _)
Pad(n, d) == IF d = 0 THEN "" ELSE Pad(n \div 10, d - 1) \o ToString(n % 10)

\* p/q (p >= 0, q > 0) in units of 10^-d, rounded to nearest, ties to even:
\* the digits the format specification .<d>f prints for the quotient
RoundFixed(p, q, d) ==
  LET scaled == p * Pow10(d)
      fl == scaled \div q
      rem == scaled % q
  IN  IF 2 * rem > q \/ (2 * rem = q /\ fl % 2 = 1) THEN fl + 1 ELSE fl

\* f"{p/q:.<d>f}" for q > 0
FormatFixed(p, q, d) ==
  LET u == RoundFixed(IF p < 0 THEN -p ELSE p, q, d)
  IN  (IF p < 0 THEN "-" ELSE "")
        \o ToString(u \div Pow10(d)) \o "." \o Pad(u % Pow10(d), d)

\* f"{p/q:.<d>f}".lstrip('0') for q > 0: the zeros before the point go
FormatFixedLstrip0(p, q, d) ==
  LET u == RoundFixed(IF p < 0 THEN -p ELSE p, q, d)
  IN  IF p >= 0 /\ u \div Pow10(d) = 0
      THEN "." \o Pad(u % Pow10(d), d)
      ELSE FormatFixed(p, q, d)

(***************************************************************************)
(* The schema of the store.                                                *)
(***************************************************************************)
\* the columns of CREATE TABLE IF NOT EXISTS hitters
HittersDDL ==
  {"id", "team_id", "first_name", "last_name", "games", "ab", "aba", "abr",
   "runs", "hits", "doubles", "triples", "hr", "rbi", "k", "bb", "gidp",
   "err", "sb", "cs"}

\* the columns of pitchers that the statements of the application name
PitchersColumns ==
  {"id", "team_id", "first_name", "last_name"} \cup Range(PitcherCounters)

\* the columns of teams that the statements of the application name
TeamsColumns == {"id", "team_name"}

\* the store with the three tables and every column the application names
FullSchema ==
  [t \in {"teams", "hitters", "pitchers"} |->
     IF t = "teams" THEN TeamsColumns
     ELSE IF t = "hitters" THEN HittersDDL
     ELSE PitchersColumns]

(***************************************************************************)
(* State.                                                                  *)
(***************************************************************************)
VARIABLES
  schema,             \* the tables of the store file: table name -> column names
  teams,              \* table teams: rows [id, team_name]
  hitters,            \* table hitters: rows [team_id, first_name, last_name, <counters>]
  pitchers,           \* table pitchers: rows [team_id, first_name, last_name, <counters>]
  teamSelectorItems,  \* MainWindow.teamSelector: the team names after "Select Team"
  teamSelector,       \* MainWindow.teamSelector.currentText()
  roleSelector,       \* MainWindow.roleSelector.currentText()
  hitterForm,         \* the texts of the hitter*Input fields
  pitcherForm,        \* the texts of the pitcher*Input fields
  playerList,         \* MainWindow.playerList: the item texts
  printStatsWindow,   \* <<>>, or <<w>> for the open PrintStatsWindow w
  lastOp              \* the last handler that ran: its name, the INSERT, UPDATE
                      \* and DELETE statements it executed, the message it showed
                      \* (in successLabel or in a message box) and whether it
                      \* left by an exception

vars ==
  <<schema, teams, hitters, pitchers, teamSelectorItems, teamSelector,
    roleSelector, hitterForm, pitcherForm, playerList, printStatsWindow, lastOp>>

store == <<schema, teams, hitters, pitchers>>

forms == <<hitterForm, pitcherForm>>

Op(handler, sql, message, raised) ==
  [handler |-> handler, sql |-> sql, message |-> message, raised |-> raised]

(***************************************************************************)
(* Store queries.                                                          *)
(***************************************************************************)
\* SELECT id FROM teams WHERE team_name = ? : the ids, in scan order
SelectTeamIds(ts, team_name) ==
  LET match(t) == t.team_name = team_name
      rows == SelectSeq(ts, match)
  IN  [i \in 1..Len(rows) |-> rows[i].id]

\* a SELECT that lost its WHERE clause
SelectOfAnyTeam(table, team_id) == table

\* SELECT ... FROM <table> WHERE team_id = ?
SelectByTeam(table, team_id) ==
  LET match(r) == r.team_id = team_id
  IN  SelectSeq(table, match)

\* a lookup that misses the row written last
SelectByKeyButLastRow(table, team_id, first_name, last_name) ==
  LET match(r) == /\ r.team_id = team_id
                  /\ r.first_name = first_name
                  /\ r.last_name = last_name
  IN  SelectSeq(SubSeq(table, 1, Len(table) - 1), match)

\* SELECT ... FROM <table> WHERE team_id = ? AND first_name = ? AND last_name = ?
SelectByKey(table, team_id, first_name, last_name) ==
  LET match(r) == /\ r.team_id = team_id
                  /\ r.first_name = first_name
                  /\ r.last_name = last_name
  IN  SelectSeq(table, match)

\* the id sqlite gives a row inserted into teams without one: the id column
\* is the rowid, so the new id is one more than the largest id in the table
NextTeamId(ts) ==
  IF ts = <<>> THEN 1
  ELSE 1 + CHOOSE m \in {ts[i].id : i \in 1..Len(ts)} :
             \A i \in 1..Len(ts) : ts[i].id <= m

\* UNIQUE (first_name, last_name) of hitters: would inserting this name fail?
HittersUniqueViolated(hs, first_name, last_name) ==
  \E i \in 1..Len(hs) :
     hs[i].first_name = first_name /\ hs[i].last_name = last_name

(***************************************************************************)
(* Strings.                                                                *)
(***************************************************************************)
UpperCase ==
  <<"A", "B", "C", "D", "E", "F", "G", "H", "I", "J", "K", "L", "M",
    "N", "O", "P", "Q", "R", "S", "T", "U", "V", "W", "X", "Y", "Z">>

LowerCase ==
  <<"a", "b", "c", "d", "e", "f", "g", "h", "i", "j", "k", "l", "m",
    "n", "o", "p", "q", "r", "s", "t", "u", "v", "w", "x", "y", "z">>

\* ord(c)
Ord ==
  [c \in Range(UpperCase) \cup Range(LowerCase) \cup {" "} |->
     IF c = " " THEN 32
     ELSE IF c \in Range(UpperCase)
     THEN 64 + CHOOSE i \in 1..26 : UpperCase[i] = c
     ELSE 96 + CHOOSE i \in 1..26 : LowerCase[i] = c]

\* a comparison that ignores the case of the letters
RECURSIVE StrLessIgnoringCase(_, _)
StrLessIgnoringCase(a, b) ==
  LET fold(c) == IF \E k \in 1..26 : LowerCase[k] = c
                 THEN UpperCase[CHOOSE k \in 1..26 : LowerCase[k] = c]
                 ELSE c
  IN  IF b = <<>> THEN FALSE
      ELSE IF a = <<>> THEN TRUE
      ELSE IF fold(Head(a)) # fold(Head(b))
      THEN Ord[fold(Head(a))] < Ord[fold(Head(b))]
      ELSE StrLessIgnoringCase(Tail(a), Tail(b))

\* a < b for two str values: by code point, a proper prefix first
RECURSIVE StrLess(_, _)
StrLess(a, b) ==
  IF b = <<>> THEN FALSE
  ELSE IF a = <<>> THEN TRUE
  ELSE IF Head(a) # Head(b) THEN Ord[Head(a)] < Ord[Head(b)]
  ELSE StrLess(Tail(a), Tail(b))

\* sorted(rows, key=lambda x: x[1]): stable, by last name
RECURSIVE SortedByLastName(_)
SortedByLastName(rows) ==
  IF rows = <<>> THEN <<>>
  ELSE LET n == Len(rows)
           last == rows[n]
           front == SortedByLastName(SubSeq(rows, 1, n - 1))
           \* last goes after every row whose key is not greater than its own
           notGreater(r) == ~StrLess(last.last_name, r.last_name)
           k == Len(SelectSeq(front, notGreater))
       IN  SubSeq(front, 1, k) \o <<last>> \o SubSeq(front, k + 1, n - 1)

(***************************************************************************)
(* MainWindow: forms and player list.                                      *)
(***************************************************************************)
HitterFormFields == {"first_name", "last_name"} \cup Range(HitterCounters)

PitcherFormFields == {"first_name", "last_name"} \cup Range(PitcherCounters)

\* clearFields: every input of both forms is emptied
ClearedHitterForm ==
  [f \in HitterFormFields |-> IF f \in {"first_name", "last_name"} THEN <<>> ELSE ""]

ClearedPitcherForm ==
  [f \in PitcherFormFields |-> IF f \in {"first_name", "last_name"} THEN <<>> ELSE ""]

\* the hitter form after the user typed a name and a sheet of counters into it
TypedHitterForm(player, sheet) ==
  [f \in HitterFormFields |->
     IF f = "first_name" THEN player.first_name
     ELSE IF f = "last_name" THEN player.last_name
     ELSE sheet[f]]

\* the pitcher form after the user typed a name and a sheet of counters into it
TypedPitcherForm(player, sheet) ==
  [f \in PitcherFormFields |->
     IF f = "first_name" THEN player.first_name
     ELSE IF f = "last_name" THEN player.last_name
     ELSE sheet[f]]

\* a row of hitters or pitchers: the key columns and the tuple of counters
\* laid out on the counter columns
Row(team_id, first_name, last_name, columns, record) ==
  [f \in {"team_id", "first_name", "last_name"} \cup Range(columns) |->
     IF f = "team_id" THEN team_id
     ELSE IF f = "first_name" THEN first_name
     ELSE IF f = "last_name" THEN last_name
     ELSE record[CHOOSE i \in 1..Len(columns) : columns[i] = f]]

\* the tuple a SELECT of the counter columns fetches from a row
Fetch(row, columns) == [i \in 1..Len(columns) |-> row[columns[i]]]

\* an average cut off after three decimals instead of rounded
AvgStrTruncated(hits, ab) ==
  IF ab > 0
  THEN LET u == (hits * 1000) \div ab
       IN  (IF u \div 1000 = 0 THEN "" ELSE ToString(u \div 1000))
             \o "." \o Pad(u % 1000, 3)
  ELSE ".000"

\* avg_str of updatePlayerList and generateStats
AvgStr(hits, ab) == IF ab > 0 THEN FormatFixedLstrip0(hits, ab, 3) ELSE ".000"

\* an ERA per inning instead of per nine innings
EraStrPerInning(er, ip) ==
  IF ip > 0 THEN FormatFixedLstrip0(er * 10, ip, 2) ELSE "0.00"

\* era_str of updatePlayerList: er / ip * 9, ip in tenths
EraStr(er, ip) == IF ip > 0 THEN FormatFixedLstrip0(er * 90, ip, 2) ELSE "0.00"

\* the text of the list item of a hitter
HitterItemText(r) ==
  LET abr == r.aba - (r.ab + r.bb)
  IN  r.first_name \o <<" ">> \o r.last_name
        \o <<" ", " ", "ABR:", " ", ToString(abr),
             " ", " ", "AVG:", " ", AvgStr(r.hits, r.ab)>>

\* the text of the list item of a pitcher
PitcherItemText(r) ==
  LET ipr == r.ipa - r.ip
  IN  r.first_name \o <<" ">> \o r.last_name
        \o <<" ", " ", "IPR:", " ", FormatFixed(ipr, 10, 1),
             " ", " ", "ERA:", " ", EraStr(r.er, r.ip)>>

\* updatePlayerList: the items of playerList for a store and a selection
updatePlayerList(ts, hs, ps, team_name, role) ==
  IF team_name = "Select Team" THEN <<>>
  ELSE
    LET ids == SelectTeamIds(ts, team_name)
    IN  IF ids = <<>> THEN <<>>     \* fetchone()[0] raises, the list stays cleared
        ELSE
          LET players == IF role = "Hitter" THEN SelectByTeam(hs, ids[1])
                         ELSE IF role = "Pitcher" THEN SelectByTeam(ps, ids[1])
                         ELSE <<>>
              sorted == SortedByLastName(players)
              named(r) == r.first_name # <<>> /\ r.last_name # <<>>
              shown == SelectSeq(sorted, named)
          IN  [i \in 1..Len(shown) |->
                 IF role = "Hitter" THEN HitterItemText(shown[i])
                 ELSE PitcherItemText(shown[i])]

\* MainWindow.updateTeams: the names the selector lists after "Select Team"
updateTeams(ts) == [i \in 1..Len(ts) |-> ts[i].team_name]

(***************************************************************************)
(* Startup.                                                                *)
(***************************************************************************)
\* the state MainWindow.__init__ leaves over a store whose tables are empty
Init ==
  /\ teams = <<>>
  /\ hitters = <<>>
  /\ pitchers = <<>>
  /\ teamSelectorItems = <<>>
  /\ teamSelector = "Select Team"
  /\ roleSelector = "Select Role"
  /\ hitterForm = ClearedHitterForm
  /\ pitcherForm = ClearedPitcherForm
  /\ playerList = <<>>
  /\ printStatsWindow = <<>>
  /\ schema = FullSchema
  /\ lastOp = Op("__init__", <<>>, "No Teams Found", FALSE)

\* create_tables: CREATE TABLE IF NOT EXISTS hitters
create_tables(db) ==
  IF "hitters" \in DOMAIN db THEN db ELSE db @@ ("hitters" :> HittersDDL)

\* ensure_column_exists: PRAGMA table_info of a table that does not exist
\* returns no rows, and ALTER TABLE on it raises sqlite3.OperationalError
ensure_column_exists(db, table, column) ==
  LET columns == IF table \in DOMAIN db THEN db[table] ELSE {}
  IN  IF column \in columns THEN [db |-> db, raised |-> FALSE]
      ELSE IF table \notin DOMAIN db THEN [db |-> db, raised |-> TRUE]
      ELSE [db |-> [db EXCEPT ![table] = @ \cup {column}], raised |-> FALSE]

\* the calls of update_database_schema, in their order
EnsuredColumns ==
  << <<"hitters", "sb">>, <<"hitters", "cs">>, <<"hitters", "gidp">>,
     <<"hitters", "err">>, <<"pitchers", "wp">>, <<"pitchers", "err">> >>

\* update_database_schema from its call number k on: the first call that
\* raises leaves it
RECURSIVE EnsureFrom(_, _)
EnsureFrom(db, k) ==
  IF k > Len(EnsuredColumns) THEN [db |-> db, raised |-> FALSE]
  ELSE LET r == ensure_column_exists(db, EnsuredColumns[k][1], EnsuredColumns[k][2])
       IN  IF r.raised THEN r ELSE EnsureFrom(r.db, k + 1)

update_database_schema(db) == EnsureFrom(db, 1)

\* the application is closed and started again over the same store:
\* create_tables, update_database_schema, initUI, checkAndPromptTeams,
\* updateTeams.  An exception of sqlite3 leaves __init__ and ends the
\* process before a window exists
Startup ==
  LET updated == update_database_schema(create_tables(schema))
      no_table == IF updated.raised THEN "no such table: pitchers"
                  ELSE IF "teams" \notin DOMAIN updated.db
                  THEN "no such table: teams"
                  ELSE ""
  IN  /\ schema' = updated.db
      /\ teamSelectorItems' = IF no_table = "" THEN updateTeams(teams) ELSE <<>>
      /\ teamSelector' = "Select Team"
      /\ roleSelector' = "Select Role"
      /\ hitterForm' = ClearedHitterForm
      /\ pitcherForm' = ClearedPitcherForm
      /\ playerList' = <<>>
      /\ printStatsWindow' = <<>>
      /\ lastOp' = IF no_table = ""
                   THEN Op("__init__", <<>>,
                           IF teams = <<>> THEN "No Teams Found" ELSE "", FALSE)
                   ELSE Op("__init__", <<>>, no_table, TRUE)
      /\ UNCHANGED <<teams, hitters, pitchers>>

\* the application is started and sqlite3.connect raises sqlite3.Error:
\* connect_to_database prints the error and returns None, create_tables calls
\* self.db_connection.cursor() on it and raises AttributeError, which leaves
\* __init__ and ends the process; no window exists, the store file is as it was
StartupNoStore ==
  /\ teamSelectorItems' = <<>>
  /\ teamSelector' = "Select Team"
  /\ roleSelector' = "Select Role"
  /\ hitterForm' = ClearedHitterForm
  /\ pitcherForm' = ClearedPitcherForm
  /\ playerList' = <<>>
  /\ printStatsWindow' = <<>>
  /\ lastOp' = Op("__init__", <<>>, "Error connecting to database", TRUE)
  /\ UNCHANGED store

\* the user picks an entry of the team selector; no handler is connected
SelectTeam(team_name) ==
  /\ team_name \in {"Select Team"} \cup Range(teamSelectorItems)
  /\ team_name # teamSelector
  /\ teamSelector' = team_name
  /\ lastOp' = Op("teamSelector", <<>>, "", FALSE)
  /\ UNCHANGED <<store, teamSelectorItems, roleSelector, forms, playerList,
                 printStatsWindow>>

\* the user picks an entry of the role selector: currentTextChanged runs
\* updateFields, which ends in updatePlayerList
updateFields(role) ==
  /\ role \in {"Select Role", "Hitter", "Pitcher"}
  /\ role # roleSelector
  /\ roleSelector' = role
  /\ playerList' = updatePlayerList(teams, hitters, pitchers, teamSelector, role)
  /\ lastOp' = Op("updateFields", <<>>, "", FALSE)
  /\ UNCHANGED <<store, teamSelectorItems, teamSelector, forms,
                 printStatsWindow>>

\* item.text().split(): the pieces of a text between its blanks
RECURSIVE Split(_)
Split(text) ==
  IF text = <<>> THEN <<>>
  ELSE IF Head(text) = " " THEN Split(Tail(text))
  ELSE LET blanks == {k \in 1..Len(text) : text[k] = " "}
           end == IF blanks = {} THEN Len(text) + 1
                  ELSE CHOOSE k \in blanks : \A m \in blanks : k <= m
       IN  <<SubSeq(text, 1, end - 1)>> \o Split(SubSeq(text, end + 1, Len(text)))

\* first_name LIKE initial || '%': LIKE ignores the case of ASCII letters
LikeInitial(first_name, initial) ==
  LET fold(c) == IF \E k \in 1..26 : UpperCase[k] = c
                 THEN LowerCase[CHOOSE k \in 1..26 : UpperCase[k] = c]
                 ELSE c
  IN  first_name # <<>> /\ fold(first_name[1]) = fold(initial)

\* a loadPlayerData that does not call clearFields before it sets the fields
loadPlayerDataOverTyped(i) ==
  /\ i \in 1..Len(playerList)
  /\ LET player == Split(playerList[i])
         result == SelectTeamIds(teams, teamSelector)
         match(r) == /\ result # <<>>
                     /\ r.team_id = result[1]
                     /\ LikeInitial(r.first_name, player[1][1])
                     /\ r.last_name = player[2]
         player_data == IF roleSelector = "Hitter" THEN SelectSeq(hitters, match)
                        ELSE IF roleSelector = "Pitcher"
                        THEN SelectSeq(pitchers, match)
                        ELSE <<>>
     IN  /\ lastOp' = Op("loadPlayerData", <<>>, "", result = <<>>)
         /\ IF player_data = <<>> THEN UNCHANGED forms
            ELSE IF roleSelector = "Hitter"
            THEN /\ hitterForm' =
                      [hitterForm EXCEPT
                         !.first_name = player_data[1].first_name,
                         !.last_name = player_data[1].last_name,
                         !.aba = ToString(player_data[1].aba)]
                 /\ UNCHANGED pitcherForm
            ELSE /\ pitcherForm' =
                      [pitcherForm EXCEPT
                         !.first_name = player_data[1].first_name,
                         !.last_name = player_data[1].last_name,
                         !.ipa = FloatText(player_data[1].ipa)]
                 /\ UNCHANGED hitterForm
  /\ UNCHANGED <<store, teamSelectorItems, teamSelector, roleSelector,
                 playerList, printStatsWindow>>

\* loadPlayerData: the user clicks item i of playerList
loadPlayerData(i) ==
  /\ i \in 1..Len(playerList)
  /\ LET player == Split(playerList[i])
         first_name_initial == player[1][1]
         last_name == player[2]
         result == SelectTeamIds(teams, teamSelector)
     IN  IF result = <<>>
         THEN \* fetchone()[0] raises TypeError
              /\ lastOp' = Op("loadPlayerData", <<>>, "", TRUE)
              /\ UNCHANGED forms
         ELSE
           LET match(r) == /\ r.team_id = result[1]
                           /\ LikeInitial(r.first_name, first_name_initial)
                           /\ r.last_name = last_name
               player_data == IF roleSelector = "Hitter" THEN SelectSeq(hitters, match)
                              ELSE IF roleSelector = "Pitcher"
                              THEN SelectSeq(pitchers, match)
                              ELSE <<>>
           IN  /\ lastOp' = Op("loadPlayerData", <<>>, "", FALSE)
               /\ IF player_data = <<>> THEN UNCHANGED forms
                  ELSE IF roleSelector = "Hitter"
                  THEN /\ hitterForm' =
                            [ClearedHitterForm EXCEPT
                               !.first_name = player_data[1].first_name,
                               !.last_name = player_data[1].last_name,
                               !.aba = ToString(player_data[1].aba)]
                       /\ pitcherForm' = ClearedPitcherForm
                  ELSE /\ hitterForm' = ClearedHitterForm
                       /\ pitcherForm' =
                            [ClearedPitcherForm EXCEPT
                               !.first_name = player_data[1].first_name,
                               !.last_name = player_data[1].last_name,
                               !.ipa = FloatText(player_data[1].ipa)]
  /\ UNCHANGED <<store, teamSelectorItems, teamSelector, roleSelector,
                 playerList, printStatsWindow>>

(***************************************************************************)
(* MainWindow.saveData.                                                    *)
(***************************************************************************)
\* a comparison that reports a change for every submission
hasChangesAlways(original_record, current_record) == TRUE

\* hasChanges: does some position of the two tuples differ?
hasChanges(original_record, current_record) ==
  \E i \in 1..Len(original_record) :
     i <= Len(current_record) /\ original_record[i] # current_record[i]

\* a saveData without the guard loop
NullInputNever(original_record, current_record) == FALSE

\* a guard that inspects the first counter only
NullInputFirstCounterOnly(original_record, current_record) ==
  /\ current_record[1] = 0
  /\ original_record[1] # 0

\* the guard loop of saveData: some submitted value is 0 where the stored
\* value is not
NullInput(original_record, current_record) ==
  \E i \in 1..Len(original_record) :
     /\ i <= Len(current_record)
     /\ current_record[i] = 0
     /\ original_record[i] # 0

\* an UPDATE that adds the submitted counters to the stored ones, as the
\* ON CONFLICT clause of saveHitterData and savePitcherData does
UpdateAccumulating(table, columns, team_id, first_name, last_name, record) ==
  [i \in 1..Len(table) |->
     IF /\ table[i].team_id = team_id
        /\ table[i].first_name = first_name
        /\ table[i].last_name = last_name
     THEN Row(team_id, first_name, last_name, columns,
              [k \in 1..Len(columns) |-> table[i][columns[k]] + record[k]])
     ELSE table[i]]

\* an UPDATE whose WHERE clause names the player and not the team
UpdateOfAnyTeam(table, columns, team_id, first_name, last_name, record) ==
  [i \in 1..Len(table) |->
     IF /\ table[i].first_name = first_name
        /\ table[i].last_name = last_name
     THEN Row(table[i].team_id, first_name, last_name, columns, record)
     ELSE table[i]]

\* UPDATE <table> SET <counters> WHERE team_id = ? AND first_name = ? AND last_name = ?
Update(table, columns, team_id, first_name, last_name, record) ==
  [i \in 1..Len(table) |->
     IF /\ table[i].team_id = team_id
        /\ table[i].first_name = first_name
        /\ table[i].last_name = last_name
     THEN Row(team_id, first_name, last_name, columns, record)
     ELSE table[i]]

\* current_record of the Hitter branch: every counter field through safe_int
HitterCurrentRecord(hf) ==
  [i \in 1..Len(HitterCounters) |-> safe_int(hf[HitterCounters[i]])]

\* current_record of the Pitcher branch: ip and ipa through safe_float, the
\* other counter fields through safe_int
PitcherCurrentRecord(pf) ==
  [i \in 1..Len(PitcherCounters) |->
     IF PitcherCounters[i] \in PitcherFloatFields
     THEN safe_float(pf[PitcherCounters[i]])
     ELSE safe_int(pf[PitcherCounters[i]])]

\* the tail of saveData: commit, updatePlayerList, clearFields
SaveDataEnd(hs, ps, sql, message) ==
  /\ hitters' = hs
  /\ pitchers' = ps
  /\ playerList' = updatePlayerList(teams, hs, ps, teamSelector, roleSelector)
  /\ hitterForm' = ClearedHitterForm
  /\ pitcherForm' = ClearedPitcherForm
  /\ lastOp' = Op("saveData", sql, message, FALSE)

\* an early return of saveData, or an exception leaving it: the forms keep
\* what the user typed, nothing is written, the list is not refreshed
SaveDataLeave(hf, pf, message, raised) ==
  /\ hitterForm' = hf
  /\ pitcherForm' = pf
  /\ lastOp' = Op("saveData", <<>>, message, raised)
  /\ UNCHANGED <<hitters, pitchers, playerList>>

\* the Hitter branch of saveData
saveDataHitter(team_id, hf, pf) ==
  LET first_name == hf.first_name
      last_name == hf.last_name
      current_record == HitterCurrentRecord(hf)
      found == SelectByKey(hitters, team_id, first_name, last_name)
      original_record == IF found = <<>> THEN <<>>
                         ELSE Fetch(found[1], HitterCounters)
  IN  IF found # <<>> /\ NullInput(original_record, current_record)
      THEN SaveDataLeave(hf, pf, "No update made due to null input values.",
                         FALSE)
      ELSE IF found # <<>> /\ hasChanges(original_record, current_record)
      THEN SaveDataEnd(Update(hitters, HitterCounters, team_id, first_name,
                              last_name, current_record),
                       pitchers, <<"UPDATE hitters">>,
                       "Player data updated successfully.")
      ELSE IF found = <<>>
      THEN IF HittersUniqueViolated(hitters, first_name, last_name)
           THEN \* the INSERT raises sqlite3.IntegrityError
                SaveDataLeave(hf, pf, "", TRUE)
           ELSE /\ Len(hitters) + Len(pitchers) < MaxRecords
                /\ SaveDataEnd(Append(hitters,
                                      Row(team_id, first_name, last_name,
                                          HitterCounters, current_record)),
                               pitchers, <<"INSERT hitters">>,
                               "Player data added successfully.")
      ELSE SaveDataEnd(hitters, pitchers, <<>>, "")

\* the Pitcher branch of saveData
saveDataPitcher(team_id, hf, pf) ==
  LET first_name == pf.first_name
      last_name == pf.last_name
      current_record == PitcherCurrentRecord(pf)
      found == SelectByKey(pitchers, team_id, first_name, last_name)
      original_record == IF found = <<>> THEN <<>>
                         ELSE Fetch(found[1], PitcherCounters)
  IN  IF found # <<>> /\ NullInput(original_record, current_record)
      THEN SaveDataLeave(hf, pf, "No update made due to null input values.",
                         FALSE)
      ELSE IF found # <<>> /\ hasChanges(original_record, current_record)
      THEN SaveDataEnd(hitters,
                       Update(pitchers, PitcherCounters, team_id, first_name,
                              last_name, current_record),
                       <<"UPDATE pitchers">>,
                       "Player data updated successfully.")
      ELSE IF found = <<>>
      THEN /\ Len(hitters) + Len(pitchers) < MaxRecords
           /\ SaveDataEnd(hitters,
                          Append(pitchers,
                                 Row(team_id, first_name, last_name,
                                     PitcherCounters, current_record)),
                          <<"INSERT pitchers">>,
                          "Player data added successfully.")
      ELSE SaveDataEnd(hitters, pitchers, <<>>, "")

\* saveData, run on the form texts hf and pf
saveData(hf, pf) ==
  LET result == SelectTeamIds(teams, teamSelector)
  IN  /\ IF result = <<>>
         THEN SaveDataLeave(hf, pf, "No team selected. Operation aborted.", FALSE)
         ELSE IF roleSelector = "Hitter" THEN saveDataHitter(result[1], hf, pf)
         ELSE IF roleSelector = "Pitcher" THEN saveDataPitcher(result[1], hf, pf)
         ELSE SaveDataEnd(hitters, pitchers, <<>>, "")
      /\ UNCHANGED <<schema, teams, teamSelectorItems, teamSelector,
                     roleSelector, printStatsWindow>>

\* with a team selected, the user fills the hitter form and clicks Add/Update
SaveTypedHitter ==
  \E player \in PlayerNames, sheet \in HitterSheets :
     /\ roleSelector = "Hitter"
     /\ teamSelector # "Select Team"
     /\ saveData(TypedHitterForm(player, sheet), pitcherForm)

\* with a team selected, the user fills the pitcher form and clicks Add/Update
SaveTypedPitcher ==
  \E player \in PlayerNames, sheet \in PitcherSheets :
     /\ roleSelector = "Pitcher"
     /\ teamSelector # "Select Team"
     /\ saveData(hitterForm, TypedPitcherForm(player, sheet))

\* texts a user can leave in a counter field: nothing, letters, a decimal
\* fraction, a negative number
MistypedTexts == {"", "abc", "1.5", "-3"}

\* the counter fields these texts are typed into
MistypedHitterFields == {"games", "hits"}
MistypedPitcherFields == {"ip", "er"}

\* the player whose sheets they are
MistypedPlayer == [first_name |-> <<"A", "l">>, last_name |-> <<"B", "a">>]

\* with a team selected, the user fills the hitter form, one counter field
\* with such a text, and clicks Add/Update
SaveMistypedHitter ==
  \E c \in MistypedHitterFields, text \in MistypedTexts :
     /\ roleSelector = "Hitter"
     /\ teamSelector # "Select Team"
     /\ saveData([TypedHitterForm(MistypedPlayer, HitterSheetFull)
                    EXCEPT ![c] = text],
                 pitcherForm)

\* with a team selected, the user fills the pitcher form, one counter field
\* with such a text, and clicks Add/Update
SaveMistypedPitcher ==
  \E c \in MistypedPitcherFields, text \in MistypedTexts :
     /\ roleSelector = "Pitcher"
     /\ teamSelector # "Select Team"
     /\ saveData(hitterForm,
                 [TypedPitcherForm(MistypedPlayer, PitcherSheetFull)
                    EXCEPT ![c] = text])

\* the user fills both forms with the name and a full sheet of a player; no
\* handler is connected to the inputs
TypeSheets ==
  /\ hitterForm' = TypedHitterForm(MistypedPlayer, HitterSheetFull)
  /\ pitcherForm' = TypedPitcherForm(MistypedPlayer, PitcherSheetFull)
  /\ hitterForm' # hitterForm \/ pitcherForm' # pitcherForm
  /\ lastOp' = Op("inputs", <<>>, "", FALSE)
  /\ UNCHANGED <<store, teamSelectorItems, teamSelector, roleSelector,
                 playerList, printStatsWindow>>

\* the user clicks Add/Update on the forms as they stand
SaveAsIs == saveData(hitterForm, pitcherForm)

(***************************************************************************)
(* ConfigWindow.  Its teamToDeleteSelector lists the team names of the     *)
(* store: it is filled at construction and after every createTeam,         *)
(* deleteTeam and initDatabase.                                            *)
(***************************************************************************)
\* a createTeam that does not look for the name in the store
createTeamUnchecked(team_name) ==
  /\ NextTeamId(teams) <= MaxTeamId
  /\ teams' = Append(teams, [id |-> NextTeamId(teams), team_name |-> team_name])
  /\ lastOp' = Op("createTeam", <<"INSERT teams">>, "Success", FALSE)
  /\ UNCHANGED <<schema, hitters, pitchers, teamSelectorItems, teamSelector,
                 roleSelector, forms, playerList, printStatsWindow>>

\* createTeam with team_name typed into newTeamName
createTeam(team_name) ==
  LET count == Len(SelectTeamIds(teams, team_name))
  IN  /\ IF count > 0
         THEN /\ lastOp' = Op("createTeam", <<>>, "Duplicate Team", FALSE)
              /\ UNCHANGED teams
         ELSE /\ NextTeamId(teams) <= MaxTeamId
              /\ teams' = Append(teams, [id |-> NextTeamId(teams),
                                         team_name |-> team_name])
              /\ lastOp' = Op("createTeam", <<"INSERT teams">>, "Success", FALSE)
      /\ UNCHANGED <<schema, hitters, pitchers, teamSelectorItems,
                     teamSelector, roleSelector, forms, playerList,
                     printStatsWindow>>

\* DELETE FROM teams WHERE team_name = ?
DeleteTeamRows(ts, team_name) ==
  LET keep(t) == t.team_name # team_name
  IN  SelectSeq(ts, keep)

\* a DELETE that lost its WHERE clause
DeleteRowsOfAnyTeam(table, ts, team_name) == <<>>

\* DELETE FROM <table> WHERE team_id IN (SELECT id FROM teams WHERE team_name = ?)
DeleteRowsOfTeam(table, ts, team_name) ==
  LET ids == Range(SelectTeamIds(ts, team_name))
      keep(r) == r.team_id \notin ids
  IN  SelectSeq(table, keep)

\* deleteTeam, confirmed with Yes, for the team picked in teamToDeleteSelector:
\* the three DELETE statements run in the order of the source, each on the
\* store the one before it left
deleteTeam(team_name) ==
  LET ts1 == DeleteTeamRows(teams, team_name)
      hs1 == DeleteRowsOfTeam(hitters, ts1, team_name)
      ps1 == DeleteRowsOfTeam(pitchers, ts1, team_name)
  IN  /\ team_name \in Range(updateTeams(teams))
      /\ team_name # ""
      /\ teams' = ts1
      /\ hitters' = hs1
      /\ pitchers' = ps1
      /\ teamSelectorItems' = updateTeams(ts1)
      /\ teamSelector' = "Select Team"
      /\ lastOp' = Op("deleteTeam",
                      <<"DELETE teams", "DELETE hitters", "DELETE pitchers">>,
                      "Success", FALSE)
      /\ UNCHANGED <<schema, roleSelector, forms, playerList, printStatsWindow>>

\* initDatabase, confirmed with Yes
initDatabase ==
  /\ teams' = <<>>
  /\ hitters' = <<>>
  /\ pitchers' = <<>>
  /\ teamSelectorItems' = updateTeams(<<>>)
  /\ teamSelector' = "Select Team"
  /\ playerList' = updatePlayerList(<<>>, <<>>, <<>>, "Select Team", roleSelector)
  /\ lastOp' = Op("initDatabase",
                  <<"DELETE hitters", "DELETE pitchers", "DELETE teams">>,
                  "Success", FALSE)
  /\ UNCHANGED <<schema, roleSelector, forms, printStatsWindow>>

(***************************************************************************)
(* PrintStatsWindow.                                                       *)
(***************************************************************************)
\* the sum of a column over rows
RECURSIVE Total(_, _)
Total(rows, column) ==
  IF rows = <<>> THEN 0 ELSE rows[1][column] + Total(Tail(rows), column)

\* slg_str of generateStats
SlgStr(hits, doubles, triples, hr, ab) ==
  IF ab > 0 THEN FormatFixedLstrip0(hits + doubles + 2 * triples + 3 * hr, ab, 3)
  ELSE ".000"

\* the sum of hits / ab over the rows with at-bats, as a fraction <<p, q>>
RECURSIVE SumOfAverages(_)
SumOfAverages(rows) ==
  IF rows = <<>> THEN <<0, 1>>
  ELSE LET rest == SumOfAverages(Tail(rows))
           r == Head(rows)
       IN  IF r.ab > 0 THEN <<r.hits * rest[2] + rest[1] * r.ab, rest[2] * r.ab>>
           ELSE rest

\* a team average that is the mean of the averages of the players
TeamAvgStrMeanOfPlayers(rows) ==
  AvgStr(SumOfAverages(rows)[1], SumOfAverages(rows)[2] * Len(rows))

\* avg_str of the totals row: total_hits / total_ab
TeamAvgStr(rows) == AvgStr(Total(rows, "hits"), Total(rows, "ab"))

\* a line of hitters_stats
HitterStatsRow(r) ==
  [name |-> <<r.first_name[1], ".", " ">> \o r.last_name,
   games |-> r.games, ab |-> r.ab, aba |-> r.aba,
   abr |-> r.aba - (r.ab + r.bb),
   avg |-> AvgStr(r.hits, r.ab),
   slg |-> SlgStr(r.hits, r.doubles, r.triples, r.hr, r.ab),
   hits |-> r.hits, runs |-> r.runs, doubles |-> r.doubles,
   triples |-> r.triples, hr |-> r.hr, rbi |-> r.rbi, k |-> r.k, bb |-> r.bb,
   sb |-> r.sb, cs |-> r.cs, gidp |-> r.gidp, err |-> r.err]

\* generateStats: the batters table of the team
generateStats(hs, team_id) ==
  LET hitters_ == SortedByLastName(SelectByTeam(hs, team_id))
      named(r) == r.first_name # <<>> /\ r.last_name # <<>>
      shown == SelectSeq(hitters_, named)
      total_hits == Total(hitters_, "hits")
      total_ab == Total(hitters_, "ab")
      total_doubles == Total(hitters_, "doubles")
      total_triples == Total(hitters_, "triples")
      total_hr == Total(hitters_, "hr")
  IN  [rows |-> [i \in 1..Len(shown) |-> HitterStatsRow(shown[i])],
       totals |->
         [avg |-> TeamAvgStr(hitters_),
          slg |-> SlgStr(total_hits, total_doubles, total_triples, total_hr,
                         total_ab),
          hits |-> total_hits,
          runs |-> Total(hitters_, "runs"),
          doubles |-> total_doubles,
          triples |-> total_triples,
          hr |-> total_hr,
          rbi |-> Total(hitters_, "rbi"),
          k |-> Total(hitters_, "k"),
          bb |-> Total(hitters_, "bb"),
          sb |-> Total(hitters_, "sb"),
          cs |-> Total(hitters_, "cs"),
          gidp |-> Total(hitters_, "gidp"),
          err |-> Total(hitters_, "err")]]

\* f"{era:5.2f}" of a pitcher line: er / ip * 9 if ip > 0 else 0
EraFixed(er, ip) == IF ip > 0 THEN FormatFixed(er * 90, ip, 2) ELSE "0.00"

\* a line of pitchers_stats
PitcherStatsRow(r) ==
  [name |-> <<r.first_name[1], ".", " ">> \o r.last_name,
   games |-> r.games, st |-> r.st,
   ip |-> FormatFixed(r.ip, 10, 1),
   ipa |-> FormatFixed(r.ipa, 10, 1),
   ipr |-> FormatFixed(r.ipa - r.ip, 10, 1),
   wins |-> r.wins, losses |-> r.losses, saves |-> r.saves, hits |-> r.hits,
   er |-> r.er, hr |-> r.hr,
   era |-> EraFixed(r.er, r.ip),
   k |-> r.k, bb |-> r.bb, wp |-> r.wp, err |-> r.err]

\* a pitchers table whose totals are accumulated for the printed rows only
generatePitchersStatsOfNamed(ps, team_id) ==
  LET pitchers_ == SelectByTeam(ps, team_id)
      named(r) == r.first_name # <<>> /\ r.last_name # <<>>
      shown == SelectSeq(pitchers_, named)
      total_ip == Total(shown, "ip")
      total_er == Total(shown, "er")
  IN  [rows |-> [i \in 1..Len(shown) |-> PitcherStatsRow(shown[i])],
       totals |->
         [ip |-> FormatFixed(total_ip, 10, 1),
          er |-> total_er,
          hr |-> Total(shown, "hr"),
          era |-> EraStr(total_er, total_ip),
          k |-> Total(shown, "k"),
          bb |-> Total(shown, "bb"),
          wp |-> Total(shown, "wp"),
          err |-> Total(shown, "err")]]

\* generatePitchersStats: the pitchers table of the team
generatePitchersStats(ps, team_id) ==
  LET pitchers_ == SelectByTeam(ps, team_id)
      named(r) == r.first_name # <<>> /\ r.last_name # <<>>
      shown == SelectSeq(pitchers_, named)
      total_ip == Total(pitchers_, "ip")
      total_er == Total(pitchers_, "er")
  IN  [rows |-> [i \in 1..Len(shown) |-> PitcherStatsRow(shown[i])],
       totals |->
         [ip |-> FormatFixed(total_ip, 10, 1),
          er |-> total_er,
          hr |-> Total(pitchers_, "hr"),
          era |-> EraStr(total_er, total_ip),
          k |-> Total(pitchers_, "k"),
          bb |-> Total(pitchers_, "bb"),
          wp |-> Total(pitchers_, "wp"),
          err |-> Total(pitchers_, "err")]]

\* an openPrintStats that opens the report without a team
openPrintStatsOfNoTeam ==
  LET result == SelectTeamIds(teams, teamSelector)
      team_id == IF result = <<>> THEN 0 ELSE result[1]
  IN  /\ printStatsWindow' =
           << [team_id |-> team_id,
               statsText |->
                 [batters |-> generateStats(hitters, team_id),
                  pitchers |-> generatePitchersStats(pitchers, team_id)]] >>
      /\ lastOp' = Op("openPrintStats", <<>>, "", FALSE)
      /\ UNCHANGED <<store, teamSelectorItems, teamSelector, roleSelector,
                     forms, playerList>>

\* openPrintStats: the report window of the selected team, its statsText
\* filled by PrintStatsWindow.initUI
openPrintStats ==
  LET result == SelectTeamIds(teams, teamSelector)
  IN  /\ IF result = <<>>
         THEN /\ lastOp' = Op("openPrintStats", <<>>, "No Team Selected", FALSE)
              /\ UNCHANGED printStatsWindow
         ELSE /\ printStatsWindow' =
                   << [team_id |-> result[1],
                       statsText |->
                         [batters |-> generateStats(hitters, result[1]),
                          pitchers |-> generatePitchersStats(pitchers, result[1])]] >>
              /\ lastOp' = Op("openPrintStats", <<>>, "", FALSE)
      /\ UNCHANGED <<store, teamSelectorItems, teamSelector, roleSelector,
                     forms, playerList>>

\* what a sink of the open report window received: lastOp with the tables
\* in a field of their own
Emit(handler, tables) ==
  [handler |-> handler, sql |-> <<>>, message |-> "", raised |-> FALSE,
   output |-> tables]

\* Print Preview of the open report window: printPreview connects
\* paintRequested to renderPreview, which calls generateStats and
\* generatePitchersStats again and prints what they return
renderPreview ==
  /\ printStatsWindow # <<>>
  /\ lastOp' = Emit("renderPreview",
                    [batters |-> generateStats(hitters, printStatsWindow[1].team_id),
                     pitchers |-> generatePitchersStats(pitchers,
                                                        printStatsWindow[1].team_id)])
  /\ UNCHANGED <<store, teamSelectorItems, teamSelector, roleSelector,
                 forms, playerList, printStatsWindow>>

\* Save to File of the open report window, a file name chosen: the file
\* receives statsText.toPlainText()
saveToFile ==
  /\ printStatsWindow # <<>>
  /\ lastOp' = Emit("saveToFile", printStatsWindow[1].statsText)
  /\ UNCHANGED <<store, teamSelectorItems, teamSelector, roleSelector,
                 forms, playerList, printStatsWindow>>

(***************************************************************************)
(* The program: the record editor and the team administration.             *)
(***************************************************************************)
Next ==
  \/ Startup
  \/ \E team_name \in TeamNames \cup {"Select Team"} : SelectTeam(team_name)
  \/ \E role \in {"Select Role", "Hitter", "Pitcher"} : updateFields(role)
  \/ SaveTypedHitter
  \/ SaveTypedPitcher
  \/ SaveAsIs
  \/ \E team_name \in TeamNames : createTeam(team_name)
  \/ \E team_name \in TeamNames : deleteTeam(team_name)
  \/ initDatabase

Spec == Init /\ [][Next]_vars

(***************************************************************************)
(* The report over a store.  The application is started over a store that  *)
(* earlier sessions filled: two teams, and at most MaxReportRecords rows    *)
(* that saveData can have written (a name or none, a sheet or blank        *)
(* counters).                                                              *)
(***************************************************************************)
ReportTeams == <<[id |-> 1, team_name |-> "A"], [id |-> 2, team_name |-> "B"]>>

NoName == [first_name |-> <<>>, last_name |-> <<>>]

\* the submissions that filled the hitters table: a player with a sheet, a
\* player with blank counters, a sheet with no name
ReportHitterForms ==
  {TypedHitterForm(player, sheet) :
     player \in PlayerNames, sheet \in HitterSheets \cup {ClearedHitterForm}}
  \cup {TypedHitterForm(NoName, HitterSheetFull)}

\* the submissions that filled the pitchers table
ReportPitcherForms ==
  {TypedPitcherForm(player, sheet) :
     player \in PlayerNames, sheet \in PitcherSheets \cup {ClearedPitcherForm}}
  \cup {TypedPitcherForm(NoName, PitcherSheetFull)}

ReportHitterRows ==
  {Row(id, f.first_name, f.last_name, HitterCounters, HitterCurrentRecord(f)) :
     id \in {1, 2}, f \in ReportHitterForms}

ReportPitcherRows ==
  {Row(id, f.first_name, f.last_name, PitcherCounters, PitcherCurrentRecord(f)) :
     id \in {1, 2}, f \in ReportPitcherForms}

\* the hitters tables of n rows: UNIQUE (first_name, last_name)
HitterTablesOf(n) ==
  {h \in [1..n -> ReportHitterRows] :
     \A i, j \in 1..n :
        (/\ h[i].first_name = h[j].first_name
         /\ h[i].last_name = h[j].last_name) => i = j}

\* the pitchers tables of n rows: saveData inserts a name once per team
PitcherTablesOf(n) ==
  {h \in [1..n -> ReportPitcherRows] :
     \A i, j \in 1..n :
        (/\ h[i].team_id = h[j].team_id
         /\ h[i].first_name = h[j].first_name
         /\ h[i].last_name = h[j].last_name) => i = j}

\* the application started over a store of two teams and at most max rows
InitOver(max) ==
  /\ teams = ReportTeams
  /\ \E n \in 0..max : \E k \in 0..n :
        /\ hitters \in HitterTablesOf(k)
        /\ pitchers \in PitcherTablesOf(n - k)
  /\ teamSelectorItems = updateTeams(teams)
  /\ teamSelector = "Select Team"
  /\ roleSelector = "Select Role"
  /\ hitterForm = ClearedHitterForm
  /\ pitcherForm = ClearedPitcherForm
  /\ playerList = <<>>
  /\ printStatsWindow = <<>>
  /\ schema = FullSchema
  /\ lastOp = Op("__init__", <<>>, "", FALSE)

InitReport == InitOver(MaxReportRecords)

NextReport ==
  \/ \E team_name \in TeamNames \cup {"Select Team"} : SelectTeam(team_name)
  \/ openPrintStats

SpecReport == InitReport /\ [][NextReport]_vars

(***************************************************************************)
(* Browsing a store: the user picks team and role, clicks players of the   *)
(* list, clicks Add/Update on what the click loaded and clicks Print       *)
(* Stats.                                                                  *)
(***************************************************************************)
InitBrowse == InitOver(MaxRecords)

NextBrowse ==
  \/ \E team_name \in TeamNames \cup {"Select Team"} : SelectTeam(team_name)
  \/ \E role \in {"Select Role", "Hitter", "Pitcher"} : updateFields(role)
  \/ \E i \in 1..MaxRecords : loadPlayerData(i)
  \/ SaveAsIs
  \/ openPrintStats

SpecBrowse == InitBrowse /\ [][NextBrowse]_vars

(***************************************************************************)
(* The rates of one record: the application is started over a store with   *)
(* one team and one record, a hitter or a pitcher, and the user looks at   *)
(* the player list and at the report.                                      *)
(***************************************************************************)
\* the innings pitched of the pitcher, in tenths
RateInnings == {0, 3, 10, 25, 61, 80, 200}

RateHitterRows ==
  {[Row(1, <<"A", "l">>, <<"B", "a">>, HitterCounters,
        HitterCurrentRecord(ClearedHitterForm))
      EXCEPT !.hits = h, !.ab = ab, !.hr = hr] :
     h \in 0..MaxRateCount, ab \in 0..MaxRateCount, hr \in {0, 1}}

RatePitcherRows ==
  {[Row(1, <<"B", "o">>, <<"A", "b">>, PitcherCounters,
        PitcherCurrentRecord(ClearedPitcherForm))
      EXCEPT !.er = er, !.ip = ip] :
     er \in 0..MaxRateCount, ip \in RateInnings}

InitRates ==
  /\ teams = <<[id |-> 1, team_name |-> "A"]>>
  /\ \/ hitters \in {<<r>> : r \in RateHitterRows} /\ pitchers = <<>>
     \/ hitters = <<>> /\ pitchers \in {<<r>> : r \in RatePitcherRows}
  /\ teamSelectorItems = updateTeams(teams)
  /\ teamSelector = "Select Team"
  /\ roleSelector = "Select Role"
  /\ hitterForm = ClearedHitterForm
  /\ pitcherForm = ClearedPitcherForm
  /\ playerList = <<>>
  /\ printStatsWindow = <<>>
  /\ schema = FullSchema
  /\ lastOp = Op("__init__", <<>>, "", FALSE)

NextRates ==
  \/ \E team_name \in TeamNames \cup {"Select Team"} : SelectTeam(team_name)
  \/ \E role \in {"Select Role", "Hitter", "Pitcher"} : updateFields(role)
  \/ openPrintStats

SpecRates == InitRates /\ [][NextRates]_vars

(***************************************************************************)
(* The player list over a store: players that share a last name, last      *)
(* names that differ in case only, records without a name.                 *)
(***************************************************************************)
ListNames ==
  {[first_name |-> <<"A", "n">>, last_name |-> <<"B", "a">>],
   [first_name |-> <<"A", "l">>, last_name |-> <<"B", "a">>],
   [first_name |-> <<"B", "o">>, last_name |-> <<"a", "b">>],
   [first_name |-> <<"C", "y">>, last_name |-> <<"A", "b">>],
   NoName}

ListHitterRows ==
  {Row(id, n.first_name, n.last_name, HitterCounters,
       HitterCurrentRecord(HitterSheetFull)) : id \in {1, 2}, n \in ListNames}

ListPitcherRows ==
  {Row(id, n.first_name, n.last_name, PitcherCounters,
       PitcherCurrentRecord(PitcherSheetFull)) : id \in {1, 2}, n \in ListNames}

InitList ==
  /\ teams = ReportTeams
  /\ \E n \in 0..MaxListRecords : \E k \in 0..n :
        /\ hitters \in {h \in [1..k -> ListHitterRows] :
                          \A i, j \in 1..k :
                             (/\ h[i].first_name = h[j].first_name
                              /\ h[i].last_name = h[j].last_name) => i = j}
        /\ pitchers \in {h \in [1..(n - k) -> ListPitcherRows] :
                           \A i, j \in 1..(n - k) :
                              (/\ h[i].team_id = h[j].team_id
                               /\ h[i].first_name = h[j].first_name
                               /\ h[i].last_name = h[j].last_name) => i = j}
  /\ teamSelectorItems = updateTeams(teams)
  /\ teamSelector = "Select Team"
  /\ roleSelector = "Select Role"
  /\ hitterForm = ClearedHitterForm
  /\ pitcherForm = ClearedPitcherForm
  /\ playerList = <<>>
  /\ printStatsWindow = <<>>
  /\ schema = FullSchema
  /\ lastOp = Op("__init__", <<>>, "", FALSE)

NextList ==
  \/ \E team_name \in TeamNames \cup {"Select Team"} : SelectTeam(team_name)
  \/ \E role \in {"Select Role", "Hitter", "Pitcher"} : updateFields(role)

SpecList == InitList /\ [][NextList]_vars

(***************************************************************************)
(* Starting the application over a store: the store opens, or opening it   *)
(* fails.                                                                  *)
(***************************************************************************)
InitStartup == InitOver(MaxRecords)

NextStartup ==
  \/ Startup
  \/ StartupNoStore
  \/ \E team_name \in TeamNames \cup {"Select Team"} : SelectTeam(team_name)

SpecStartup == InitStartup /\ [][NextStartup]_vars

(***************************************************************************)
(* Mistyped counters: over a store of two teams and no records the user    *)
(* picks team and role and submits sheets with one counter field that      *)
(* holds no number, or a negative one.                                     *)
(***************************************************************************)
InitMistyped == InitOver(0)

NextMistyped ==
  \/ \E team_name \in TeamNames \cup {"Select Team"} : SelectTeam(team_name)
  \/ \E role \in {"Select Role", "Hitter", "Pitcher"} : updateFields(role)
  \/ SaveMistypedHitter
  \/ SaveMistypedPitcher

SpecMistyped == InitMistyped /\ [][NextMistyped]_vars

(***************************************************************************)
(* Clicking players of the list: the store holds players that share first  *)
(* initial and last name and a player whose last name has a blank; the     *)
(* user picks team and role, fills the forms, clicks players and clicks    *)
(* Add/Update.                                                             *)
(***************************************************************************)
LoadNames ==
  {[first_name |-> <<"A", "l">>, last_name |-> <<"B", "a">>],
   [first_name |-> <<"A", "n">>, last_name |-> <<"B", "a">>],
   [first_name |-> <<"A", "l">>, last_name |-> <<"D", "e", " ", "L", "a">>]}

LoadHitterRows ==
  {Row(id, n.first_name, n.last_name, HitterCounters, HitterCurrentRecord(sheet)) :
     id \in {1, 2}, n \in LoadNames, sheet \in {HitterSheetFull, ClearedHitterForm}}

LoadPitcherRows ==
  {Row(id, n.first_name, n.last_name, PitcherCounters, PitcherCurrentRecord(sheet)) :
     id \in {1, 2}, n \in LoadNames, sheet \in {PitcherSheetFull, ClearedPitcherForm}}

InitLoad ==
  /\ teams = ReportTeams
  /\ \E n \in 0..MaxRecords : \E k \in 0..n :
        /\ hitters \in {h \in [1..k -> LoadHitterRows] :
                          \A i, j \in 1..k :
                             (/\ h[i].first_name = h[j].first_name
                              /\ h[i].last_name = h[j].last_name) => i = j}
        /\ pitchers \in {h \in [1..(n - k) -> LoadPitcherRows] :
                           \A i, j \in 1..(n - k) :
                              (/\ h[i].team_id = h[j].team_id
                               /\ h[i].first_name = h[j].first_name
                               /\ h[i].last_name = h[j].last_name) => i = j}
  /\ teamSelectorItems = updateTeams(teams)
  /\ teamSelector = "Select Team"
  /\ roleSelector = "Select Role"
  /\ hitterForm = ClearedHitterForm
  /\ pitcherForm = ClearedPitcherForm
  /\ playerList = <<>>
  /\ printStatsWindow = <<>>
  /\ schema = FullSchema
  /\ lastOp = Op("__init__", <<>>, "", FALSE)

NextLoad ==
  \/ \E team_name \in TeamNames \cup {"Select Team"} : SelectTeam(team_name)
  \/ \E role \in {"Select Role", "Hitter", "Pitcher"} : updateFields(role)
  \/ TypeSheets
  \/ \E i \in 1..MaxRecords : loadPlayerData(i)
  \/ SaveAsIs

SpecLoad == InitLoad /\ [][NextLoad]_vars

(***************************************************************************)
(* The sinks of the report: over a store of two teams and no records the   *)
(* user saves sheets, deletes teams, opens the report window, which        *)
(* stays open beside the main window, and asks it for the preview and the  *)
(* file.                                                                   *)
(***************************************************************************)
InitSinks == InitOver(0)

NextSinks ==
  \/ \E team_name \in TeamNames \cup {"Select Team"} : SelectTeam(team_name)
  \/ \E role \in {"Select Role", "Hitter", "Pitcher"} : updateFields(role)
  \/ TypeSheets
  \/ SaveAsIs
  \/ \E team_name \in TeamNames : deleteTeam(team_name)
  \/ openPrintStats
  \/ renderPreview
  \/ saveToFile

SpecSinks == InitSinks /\ [][NextSinks]_vars

(***************************************************************************)
(* Starting the application over store files of every age: a file that    *)
(* sqlite3.connect just created, files with some of the tables, tables     *)
(* that lack the columns update_database_schema adds.                      *)
(***************************************************************************)
\* a store file: each table absent, or present without some of the columns
\* that were added later
StoreFiles ==
  {[t \in tables |->
      IF t = "teams" THEN TeamsColumns
      ELSE IF t = "hitters" THEN HittersDDL \ hmissing
      ELSE PitchersColumns \ pmissing] :
     tables \in SUBSET {"teams", "hitters", "pitchers"},
     hmissing \in SUBSET {"sb", "cs", "gidp", "err"},
     pmissing \in SUBSET {"wp", "err"}}

\* the application is not running; the tables of the file, if any, are empty
InitSchema ==
  /\ schema \in StoreFiles
  /\ teams = <<>>
  /\ hitters = <<>>
  /\ pitchers = <<>>
  /\ teamSelectorItems = <<>>
  /\ teamSelector = "Select Team"
  /\ roleSelector = "Select Role"
  /\ hitterForm = ClearedHitterForm
  /\ pitcherForm = ClearedPitcherForm
  /\ playerList = <<>>
  /\ printStatsWindow = <<>>
  /\ lastOp = Op("closeEvent", <<>>, "", FALSE)

NextSchema == Startup

SpecSchema == InitSchema /\ [][NextSchema]_vars

(***************************************************************************)
(* Properties of the record editor and the team administration.            *)
(***************************************************************************)
\* the ids of the team rows of ts
TeamIdsOf(ts) == {ts[i].id : i \in 1..Len(ts)}

\* the rows of a table that refer to none of the ids
RowsNotOf(table, ids) ==
  LET other(r) == r.team_id \notin ids
  IN  SelectSeq(table, other)

\* the forms a click on Add/Update can find in the hitter form
HitterSubmissions ==
  {hitterForm} \cup
  {TypedHitterForm(player, sheet) : player \in PlayerNames, sheet \in HitterSheets}

\* the forms a click on Add/Update can find in the pitcher form
PitcherSubmissions ==
  {pitcherForm} \cup
  {TypedPitcherForm(player, sheet) : player \in PlayerNames, sheet \in PitcherSheets}

\* the number a submitted counter field stands for
SubmittedValue(form, c) ==
  IF c \in PitcherFloatFields THEN safe_float(form[c]) ELSE safe_int(form[c])

\* the positions of the rows of table stored under the selected team and the
\* name of the form
StoredUnder(table, form) ==
  {i \in 1..Len(table) :
     /\ \E t \in Range(teams) : t.team_name = teamSelector /\ t.id = table[i].team_id
     /\ table[i].first_name = form.first_name
     /\ table[i].last_name = form.last_name}

\* a team of the store is selected
TeamIsSelected == \E t \in Range(teams) : t.team_name = teamSelector

\* some submitted counter is zero or blank where the stored one is not
ZeroOverNonZero(table, columns, form) ==
  \E i \in StoredUnder(table, form) : \E c \in Range(columns) :
     SubmittedValue(form, c) = 0 /\ table[i][c] # 0

\* some submitted counter is a non-zero value other than the stored one
LegitimateChange(table, columns, form) ==
  \E i \in StoredUnder(table, form) : \E c \in Range(columns) :
     SubmittedValue(form, c) # 0 /\ table[i][c] # SubmittedValue(form, c)

\* every submitted counter equals the stored one
EqualsStored(table, columns, form) ==
  \E i \in StoredUnder(table, form) : \A c \in Range(columns) :
     SubmittedValue(form, c) = table[i][c]

\* C1: after deleteTeam for a team, no hitter and no pitcher record refers
\* to the id that team had.
C1_DeleteTeamCascades ==
  [][lastOp'.handler = "deleteTeam" =>
       LET deleted == TeamIdsOf(teams) \ TeamIdsOf(teams')
       IN  /\ deleted # {}
           /\ \A i \in 1..Len(hitters') : hitters'[i].team_id \notin deleted
           /\ \A i \in 1..Len(pitchers') : pitchers'[i].team_id \notin deleted]_vars

\* C2: deleteTeam for a team leaves every other team row, and every hitter
\* and pitcher record that refers to another team, as it was: the same
\* records with the same field values.
C2_DeleteTeamFrame ==
  [][lastOp'.handler = "deleteTeam" =>
       LET deleted == TeamIdsOf(teams) \ TeamIdsOf(teams')
           kept(t) == t.id \notin deleted
       IN  /\ Cardinality(deleted) = 1
           /\ teams' = SelectSeq(teams, kept)
           /\ RowsNotOf(hitters', deleted) = RowsNotOf(hitters, deleted)
           /\ RowsNotOf(pitchers', deleted) = RowsNotOf(pitchers, deleted)]_vars

\* a team was deleted while another team, with a record of its own, stayed
C2_Witness ==
  /\ lastOp.handler = "deleteTeam"
  /\ \E t \in Range(teams) :
        \E r \in Range(hitters) \cup Range(pitchers) : r.team_id = t.id

\* C3: when the submitted name has a record under the selected team and some
\* submitted counter is zero or blank where the stored one is not, saveData
\* writes nothing: no stored field changes, also not one whose submitted
\* value is a legitimate change.  Both roles.
C3_ZeroGuardRejectsWhole ==
  [][lastOp'.handler = "saveData" =>
       /\ roleSelector = "Hitter" =>
            \A hf \in HitterSubmissions :
               (ZeroOverNonZero(hitters, HitterCounters, hf)
                  /\ saveData(hf, pitcherForm))
               => (store' = store /\ lastOp'.sql = <<>>)
       /\ roleSelector = "Pitcher" =>
            \A pf \in PitcherSubmissions :
               (ZeroOverNonZero(pitchers, PitcherCounters, pf)
                  /\ saveData(hitterForm, pf))
               => (store' = store /\ lastOp'.sql = <<>>)]_vars

\* a pitcher submission was just rejected and a rejected hitter submission is
\* still in its form; each also carries a legitimate change
C3_Witness ==
  /\ lastOp.handler = "saveData"
  /\ lastOp.message = "No update made due to null input values."
  /\ roleSelector = "Pitcher"
  /\ ZeroOverNonZero(pitchers, PitcherCounters, pitcherForm)
  /\ LegitimateChange(pitchers, PitcherCounters, pitcherForm)
  /\ ZeroOverNonZero(hitters, HitterCounters, hitterForm)
  /\ LegitimateChange(hitters, HitterCounters, hitterForm)

\* C4: when every submitted counter equals the stored one, saveData issues
\* neither INSERT nor UPDATE and the store stays as it is; and a saveData
\* that wrote non-zero counters leaves them stored under the submitted name,
\* so that submitting them again is such a call.
C4_UpsertIdempotent ==
  [][lastOp'.handler = "saveData" =>
       /\ roleSelector = "Hitter" =>
            \A hf \in HitterSubmissions :
               saveData(hf, pitcherForm) =>
                 /\ EqualsStored(hitters, HitterCounters, hf)
                      => (store' = store /\ lastOp'.sql = <<>>)
                 /\ (/\ lastOp'.sql # <<>>
                     /\ \A c \in Range(HitterCounters) : SubmittedValue(hf, c) # 0)
                      => EqualsStored(hitters', HitterCounters, hf)
       /\ roleSelector = "Pitcher" =>
            \A pf \in PitcherSubmissions :
               saveData(hitterForm, pf) =>
                 /\ EqualsStored(pitchers, PitcherCounters, pf)
                      => (store' = store /\ lastOp'.sql = <<>>)
                 /\ (/\ lastOp'.sql # <<>>
                     /\ \A c \in Range(PitcherCounters) : SubmittedValue(pf, c) # 0)
                      => EqualsStored(pitchers', PitcherCounters, pf)]_vars

\* the only hitter record, all its counters non-zero, was submitted again
\* under its team: saveData ran to its end and issued no statement
C4_Witness ==
  /\ lastOp = Op("saveData", <<>>, "", FALSE)
  /\ roleSelector = "Hitter"
  /\ Len(hitters) = 1
  /\ hitters[1].first_name # <<>>
  /\ \E t \in Range(teams) : t.team_name = teamSelector /\ t.id = hitters[1].team_id
  /\ \A c \in Range(HitterCounters) : hitters[1][c] # 0

\* C5: when no record is stored under the selected team and the submitted
\* name, saveData appends one record holding the submitted counters, also
\* when the name is stored under another team.
C5_InsertWhenAbsent ==
  [][lastOp'.handler = "saveData" =>
       /\ (roleSelector = "Hitter" /\ TeamIsSelected) =>
            \A hf \in HitterSubmissions :
               (StoredUnder(hitters, hf) = {} /\ saveData(hf, pitcherForm)) =>
                  /\ Len(hitters') = Len(hitters) + 1
                  /\ SubSeq(hitters', 1, Len(hitters)) = hitters
                  /\ Len(hitters') \in StoredUnder(hitters', hf)
                  /\ EqualsStored(<<hitters'[Len(hitters')]>>, HitterCounters, hf)
       /\ (roleSelector = "Pitcher" /\ TeamIsSelected) =>
            \A pf \in PitcherSubmissions :
               (StoredUnder(pitchers, pf) = {} /\ saveData(hitterForm, pf)) =>
                  /\ Len(pitchers') = Len(pitchers) + 1
                  /\ SubSeq(pitchers', 1, Len(pitchers)) = pitchers
                  /\ Len(pitchers') \in StoredUnder(pitchers', pf)
                  /\ EqualsStored(<<pitchers'[Len(pitchers')]>>, PitcherCounters, pf)]_vars

\* no two rows of the table share team, first name and last name
KeyIsUnique(table) ==
  \A i, j \in 1..Len(table) :
     (/\ table[i].team_id = table[j].team_id
      /\ table[i].first_name = table[j].first_name
      /\ table[i].last_name = table[j].last_name) => i = j

\* C6: in every state saveData, createTeam, deleteTeam and initDatabase can
\* reach, no two hitter records and no two pitcher records share team, first
\* name and last name.
C6_KeyUnique == KeyIsUnique(hitters) /\ KeyIsUnique(pitchers)

\* two pitcher records of one team are stored
C6_Witness ==
  /\ Len(pitchers) = 2
  /\ pitchers[1].team_id = pitchers[2].team_id

\* C7: when the submitted name has a record under the selected team and the
\* zero guard does not reject the submission, every counter of the record is
\* afterwards the submitted value, not the stored value plus the submitted.
C7_UpdateReplaces ==
  [][lastOp'.handler = "saveData" =>
       /\ roleSelector = "Hitter" =>
            \A hf \in HitterSubmissions :
               (/\ StoredUnder(hitters, hf) # {}
                /\ ~ZeroOverNonZero(hitters, HitterCounters, hf)
                /\ saveData(hf, pitcherForm))
               => \A i \in StoredUnder(hitters, hf) : \A c \in Range(HitterCounters) :
                     /\ hitters'[i][c] = SubmittedValue(hf, c)
                     /\ hitters[i][c] # 0
                          => hitters'[i][c] # hitters[i][c] + SubmittedValue(hf, c)
       /\ roleSelector = "Pitcher" =>
            \A pf \in PitcherSubmissions :
               (/\ StoredUnder(pitchers, pf) # {}
                /\ ~ZeroOverNonZero(pitchers, PitcherCounters, pf)
                /\ saveData(hitterForm, pf))
               => \A i \in StoredUnder(pitchers, pf) : \A c \in Range(PitcherCounters) :
                     /\ pitchers'[i][c] = SubmittedValue(pf, c)
                     /\ pitchers[i][c] # 0
                          => pitchers'[i][c] # pitchers[i][c] + SubmittedValue(pf, c)]_vars

\* a stored hitter record was just overwritten
C7_Witness ==
  /\ lastOp.handler = "saveData"
  /\ lastOp.sql = <<"UPDATE hitters">>
  /\ \E i \in 1..Len(hitters) : \A c \in Range(HitterCounters) : hitters[i][c] # 0

(***************************************************************************)
(* Properties of the report.                                               *)
(***************************************************************************)
\* the sum of a column over the rows of the table that refer to the team
RECURSIVE ColumnSum(_, _, _)
ColumnSum(table, team_id, c) ==
  IF table = <<>> THEN 0
  ELSE (IF Head(table).team_id = team_id THEN Head(table)[c] ELSE 0)
         + ColumnSum(Tail(table), team_id, c)

\* the positions of the rows of the table that refer to the team
RowsOfTeam(table, team_id) == {i \in 1..Len(table) : table[i].team_id = team_id}

\* the counters the "Hitters Totals" line prints
BatterTotalColumns ==
  {"hits", "runs", "doubles", "triples", "hr", "rbi", "k", "bb", "sb", "cs",
   "gidp", "err"}

\* the counters the "Pitchers Totals" line prints
PitcherTotalColumns == {"ip", "er", "hr", "k", "bb", "wp", "err"}

\* a report was opened on the store as it is
ReportIsOpen == printStatsWindow # <<>> /\ lastOp.handler = "openPrintStats"

\* how the totals line prints the sum of a pitcher column
PitcherTotalText(c, sum) == IF c \in PitcherFloatFields THEN FormatFixed(sum, 10, 1) ELSE sum

\* C8: every counter in the batter totals row of the report of a team is the
\* sum of that counter over all hitter records that refer to the team, and
\* over no record of another team.
C8_BatterTotalsAreTeamSums ==
  ReportIsOpen =>
    LET w == printStatsWindow[1]
    IN  \A c \in BatterTotalColumns :
           w.statsText.batters.totals[c] = ColumnSum(hitters, w.team_id, c)

\* the report of a team with two hitter records, beside a hitter record of
\* another team
C8_Witness ==
  /\ ReportIsOpen
  /\ Cardinality(RowsOfTeam(hitters, printStatsWindow[1].team_id)) = 2
  /\ Len(hitters) = 3
  /\ \A i \in 1..Len(hitters) : hitters[i].hits > 0
  /\ printStatsWindow[1].statsText.batters.totals.hits = 8

\* the hitter records of the team are one with AB = 10, H = 3 and one with
\* AB = 20, H = 5
TwoHitterExample(team_id) ==
  /\ Cardinality(RowsOfTeam(hitters, team_id)) = 2
  /\ \E i, j \in RowsOfTeam(hitters, team_id) :
        /\ hitters[i].ab = 10 /\ hitters[i].hits = 3
        /\ hitters[j].ab = 20 /\ hitters[j].hits = 5

\* C9: the rates of the totals rows come from the summed counters: the team
\* average is sum(H) / sum(AB), the team slugging is
\* (sum(H) + sum(2B) + 2 sum(3B) + 3 sum(HR)) / sum(AB), the team ERA is
\* sum(ER) / sum(IP) * 9; hitters (AB = 10, H = 3) and (AB = 20, H = 5) give
\* the team average ".267".
C9_TeamRatesFromSums ==
  ReportIsOpen =>
    LET w == printStatsWindow[1]
        sumH(c) == ColumnSum(hitters, w.team_id, c)
        sumP(c) == ColumnSum(pitchers, w.team_id, c)
    IN  /\ w.statsText.batters.totals.avg =
             (IF sumH("ab") > 0
              THEN FormatFixedLstrip0(sumH("hits"), sumH("ab"), 3) ELSE ".000")
        /\ w.statsText.batters.totals.slg =
             (IF sumH("ab") > 0
              THEN FormatFixedLstrip0(sumH("hits") + sumH("doubles")
                                        + 2 * sumH("triples") + 3 * sumH("hr"),
                                      sumH("ab"), 3)
              ELSE ".000")
        /\ w.statsText.pitchers.totals.era =
             (IF sumP("ip") > 0
              THEN FormatFixedLstrip0(sumP("er") * 9 * 10, sumP("ip"), 2)
              ELSE "0.00")
        /\ TwoHitterExample(w.team_id) => w.statsText.batters.totals.avg = ".267"

\* the report of the team of the example, which also has a pitcher with
\* innings pitched
C9_Witness ==
  /\ ReportIsOpen
  /\ TwoHitterExample(printStatsWindow[1].team_id)
  /\ printStatsWindow[1].statsText.batters.totals.avg = ".267"
  /\ \E i \in RowsOfTeam(pitchers, printStatsWindow[1].team_id) :
        pitchers[i].ip > 0 /\ pitchers[i].er > 0

\* C10, as stated: each totals row holds the sum of every stored counter of
\* its role: for batters also games, at-bats and at-bats available, for
\* pitchers also games, starts, wins, losses, saves, hits and innings
\* available.
C10_TotalsSumEveryCounter ==
  ReportIsOpen =>
    LET w == printStatsWindow[1]
        bt == w.statsText.batters.totals
        pt == w.statsText.pitchers.totals
    IN  /\ \A c \in Range(HitterCounters) :
              /\ c \in DOMAIN bt
              /\ bt[c] = ColumnSum(hitters, w.team_id, c)
        /\ \A c \in Range(PitcherCounters) :
              /\ c \in DOMAIN pt
              /\ pt[c] = PitcherTotalText(c, ColumnSum(pitchers, w.team_id, c))

\* C10, amended: the batter totals row holds the team average, the team
\* slugging and the sums of H, R, 2B, 3B, HR, RBI, K, BB, SB, CS, GIDP and
\* ERR, and nothing else; the pitcher totals row holds the team ERA and the
\* sums of IP, ER, HR, K, BB, WP and ERR, and nothing else.  The sums run
\* over all records of the team, named or not.
C10_TotalsSumPrintedCounters ==
  ReportIsOpen =>
    LET w == printStatsWindow[1]
        bt == w.statsText.batters.totals
        pt == w.statsText.pitchers.totals
    IN  /\ DOMAIN bt = BatterTotalColumns \cup {"avg", "slg"}
        /\ \A c \in BatterTotalColumns : bt[c] = ColumnSum(hitters, w.team_id, c)
        /\ DOMAIN pt = PitcherTotalColumns \cup {"era"}
        /\ \A c \in PitcherTotalColumns :
              pt[c] = PitcherTotalText(c, ColumnSum(pitchers, w.team_id, c))

\* the report of a team that has played games: a hitter with games and
\* at-bats, a named pitcher with wins and a pitcher row without a name
C10_Witness ==
  /\ ReportIsOpen
  /\ \E i \in RowsOfTeam(hitters, printStatsWindow[1].team_id) :
        hitters[i].games > 0 /\ hitters[i].ab > 0
  /\ \E i, j \in RowsOfTeam(pitchers, printStatsWindow[1].team_id) :
        /\ pitchers[i].wins > 0 /\ pitchers[i].first_name # <<>>
        /\ pitchers[j].first_name = <<>> /\ pitchers[j].k > 0

(***************************************************************************)
(* Properties of the displayed rates.                                      *)
(***************************************************************************)
\* the numeral of n units of 10^-d, d = 2 or 3, with or without the zero
\* before the point
Numeral(n, d, stripped) ==
  LET unit == IF d = 2 THEN 100 ELSE 1000
      whole == n \div unit
      digits == (IF d = 3 THEN ToString((n \div 100) % 10) ELSE "")
                  \o ToString((n \div 10) % 10) \o ToString(n % 10)
  IN  (IF whole = 0 /\ stripped THEN "" ELSE ToString(whole)) \o "." \o digits

\* n units of 10^-d is p / q rounded to d decimals: no multiple of the unit
\* is nearer to p / q
IsNearest(n, p, q, d) ==
  LET unit == IF d = 2 THEN 100 ELSE 1000
      diff == p * unit - n * q
  IN  2 * (IF diff < 0 THEN -diff ELSE diff) <= q

\* text is p / q rounded to d decimals
IsRounded(text, p, q, d, stripped) ==
  \E n \in {(p * (IF d = 2 THEN 100 ELSE 1000)) \div q + k : k \in {0, 1}} :
     IsNearest(n, p, q, d) /\ text = Numeral(n, d, stripped)

\* the hitter record a text of the list or of the report names
HitterNamed(first_initial, last_name) ==
  {i \in 1..Len(hitters) :
     /\ hitters[i].first_name # <<>>
     /\ hitters[i].first_name[1] = first_initial
     /\ hitters[i].last_name = last_name}

\* the pitcher record a text of the list or of the report names
PitcherNamed(first_initial, last_name) ==
  {i \in 1..Len(pitchers) :
     /\ pitchers[i].first_name # <<>>
     /\ pitchers[i].first_name[1] = first_initial
     /\ pitchers[i].last_name = last_name}

\* the displayed average is right for hits and at-bats
AverageIsRight(text, hits, ab) ==
  IF ab > 0 THEN IsRounded(text, hits, ab, 3, TRUE) ELSE text = ".000"

\* C11: the batting average displayed for a hitter record, in the player
\* list and in its row of the report, is hits / at-bats rounded to three
\* decimals with the leading zero stripped when at-bats > 0, and ".000" when
\* at-bats = 0.
C11_DisplayedAverage ==
  /\ \A k \in 1..Len(playerList) :
        LET item == Split(playerList[k])
        IN  item[3] = <<"ABR:">> =>
              \A i \in HitterNamed(item[1][1], item[2]) :
                 AverageIsRight(item[6][1], hitters[i].hits, hitters[i].ab)
  /\ printStatsWindow # <<>> =>
       \A k \in 1..Len(printStatsWindow[1].statsText.batters.rows) :
          LET row == printStatsWindow[1].statsText.batters.rows[k]
          IN  \A i \in HitterNamed(row.name[1], SubSeq(row.name, 4, Len(row.name))) :
                 AverageIsRight(row.avg, hitters[i].hits, hitters[i].ab)

\* a hitter with one hit in sixteen at-bats is in the list and in the report
C11_Witness ==
  /\ Len(playerList) = 1
  /\ Split(playerList[1])[3] = <<"ABR:">>
  /\ Split(playerList[1])[6] = <<".062">>
  /\ printStatsWindow # <<>>
  /\ Len(printStatsWindow[1].statsText.batters.rows) = 1
  /\ printStatsWindow[1].statsText.batters.rows[1].avg = ".062"
  /\ hitters[1].hits = 1 /\ hitters[1].ab = 16

\* the displayed ERA is right for earned runs and innings pitched (in
\* tenths): it is the numeral of the rounded value, with or without the
\* zero before the point
EraIsRight(text, er, ip) ==
  IF ip > 0
  THEN IsRounded(text, er * 9 * 10, ip, 2, TRUE)
         \/ IsRounded(text, er * 9 * 10, ip, 2, FALSE)
  ELSE text = "0.00"

\* C12: the ERA displayed for a pitcher record, in the player list and in
\* its row of the report, is earned runs / innings pitched * 9 rounded to two
\* decimals when innings pitched > 0, also when earned runs = 0, and "0.00"
\* when innings pitched = 0.
C12_DisplayedEra ==
  /\ \A k \in 1..Len(playerList) :
        LET item == Split(playerList[k])
        IN  item[3] = <<"IPR:">> =>
              \A i \in PitcherNamed(item[1][1], item[2]) :
                 EraIsRight(item[6][1], pitchers[i].er, pitchers[i].ip)
  /\ printStatsWindow # <<>> =>
       \A k \in 1..Len(printStatsWindow[1].statsText.pitchers.rows) :
          LET row == printStatsWindow[1].statsText.pitchers.rows[k]
          IN  \A i \in PitcherNamed(row.name[1], SubSeq(row.name, 4, Len(row.name))) :
                 EraIsRight(row.era, pitchers[i].er, pitchers[i].ip)

\* a pitcher with innings pitched and no earned run is in the list and in
\* the report
C12_Witness ==
  /\ Len(playerList) = 1
  /\ Split(playerList[1])[3] = <<"IPR:">>
  /\ printStatsWindow # <<>>
  /\ Len(printStatsWindow[1].statsText.pitchers.rows) = 1
  /\ pitchers[1].er = 0 /\ pitchers[1].ip > 0
  /\ Split(playerList[1])[6] = <<".00">>
  /\ printStatsWindow[1].statsText.pitchers.rows[1].era = "0.00"

\* text is the rate p / q as the report is to render it: rounded to d
\* decimals and without a zero before the point, or zero when q = 0
IsStrippedRate(text, p, q, d) ==
  IF q > 0 THEN IsRounded(text, p, q, d, TRUE)
  ELSE text = (IF d = 2 THEN "0.00" ELSE ".000")

\* C13: in the report every rate below 1 is rendered without a leading zero:
\* AVG and SLG of each batter row, ERA of each pitcher row, and AVG, SLG and
\* ERA of the totals rows; with a zero denominator the rate is ".000" (AVG,
\* SLG) or "0.00" (ERA).
C13_ReportRatesWithoutLeadingZero ==
  ReportIsOpen =>
    LET w == printStatsWindow[1]
        sumH(c) == ColumnSum(hitters, w.team_id, c)
        sumP(c) == ColumnSum(pitchers, w.team_id, c)
        bases(r) == r.hits + r.doubles + 2 * r.triples + 3 * r.hr
    IN  /\ \A k \in 1..Len(w.statsText.batters.rows) :
              LET row == w.statsText.batters.rows[k]
              IN  \A i \in HitterNamed(row.name[1], SubSeq(row.name, 4, Len(row.name))) :
                     /\ IsStrippedRate(row.avg, hitters[i].hits, hitters[i].ab, 3)
                     /\ IsStrippedRate(row.slg, bases(hitters[i]), hitters[i].ab, 3)
        /\ \A k \in 1..Len(w.statsText.pitchers.rows) :
              LET row == w.statsText.pitchers.rows[k]
              IN  \A i \in PitcherNamed(row.name[1], SubSeq(row.name, 4, Len(row.name))) :
                     IsStrippedRate(row.era, pitchers[i].er * 9 * 10, pitchers[i].ip, 2)
        /\ IsStrippedRate(w.statsText.batters.totals.avg, sumH("hits"), sumH("ab"), 3)
        /\ IsStrippedRate(w.statsText.batters.totals.slg,
                          sumH("hits") + sumH("doubles") + 2 * sumH("triples")
                            + 3 * sumH("hr"),
                          sumH("ab"), 3)
        /\ IsStrippedRate(w.statsText.pitchers.totals.era, sumP("er") * 9 * 10,
                          sumP("ip"), 2)

(***************************************************************************)
(* Properties of the player list.                                          *)
(***************************************************************************)
\* a comes before b in the order of the code points, a proper prefix first
RECURSIVE CodePointsBefore(_, _)
CodePointsBefore(a, b) ==
  /\ b # <<>>
  /\ \/ a = <<>>
     \/ Ord[a[1]] < Ord[b[1]]
     \/ a[1] = b[1] /\ CodePointsBefore(Tail(a), Tail(b))

\* updatePlayerList has just run for a team of the store and a role
ListIsFresh ==
  /\ lastOp.handler = "updateFields"
  /\ TeamIsSelected
  /\ roleSelector \in {"Hitter", "Pitcher"}

\* the table the list is about
ListedTable == IF roleSelector = "Hitter" THEN hitters ELSE pitchers

\* the positions of the records of the selected team in that table
TeamRecords ==
  {i \in 1..Len(ListedTable) :
     \E t \in Range(teams) :
        t.team_name = teamSelector /\ t.id = ListedTable[i].team_id}

\* the record of the team item k of the list names
RecordOfItem(k) ==
  CHOOSE i \in TeamRecords :
     /\ ListedTable[i].first_name = Split(playerList[k])[1]
     /\ ListedTable[i].last_name = Split(playerList[k])[2]

\* the list shows each record of the set once, ordered by last name, records
\* of equal last name in the order of the store
ListsInOrder(records) ==
  /\ Len(playerList) = Cardinality(records)
  /\ \A i \in records : \E k \in 1..Len(playerList) :
        /\ ListedTable[i].first_name = Split(playerList[k])[1]
        /\ ListedTable[i].last_name = Split(playerList[k])[2]
  /\ \A k, l \in 1..Len(playerList) :
        k < l =>
          LET r == ListedTable[RecordOfItem(k)]
              q == ListedTable[RecordOfItem(l)]
          IN  /\ ~CodePointsBefore(q.last_name, r.last_name)
              /\ r.last_name = q.last_name => RecordOfItem(k) < RecordOfItem(l)

\* C14, as stated: updatePlayerList lists exactly the records of the selected
\* team and role, in non-decreasing case-sensitive order of last name,
\* records of equal last name in store order.
C14_ListsTeamRecords == ListIsFresh => ListsInOrder(TeamRecords)

\* C14, amended: updatePlayerList lists exactly the records of the selected
\* team and role that have a first name and a last name, in non-decreasing
\* case-sensitive order of last name, records of equal last name in store
\* order; a record whose first or last name is empty is not listed.
C14_ListsNamedTeamRecords ==
  ListIsFresh =>
    ListsInOrder({i \in TeamRecords : /\ ListedTable[i].first_name # <<>>
                                      /\ ListedTable[i].last_name # <<>>})

\* the list of a team with a record without a name and two players of one
\* last name, stored in the reverse order of their first names
C14_Witness ==
  /\ ListIsFresh
  /\ Cardinality(TeamRecords) = 3
  /\ Len(playerList) = 2
  /\ Split(playerList[1])[1] = <<"A", "n">>
  /\ Split(playerList[2])[1] = <<"A", "l">>
  /\ Split(playerList[1])[2] = Split(playerList[2])[2]

(***************************************************************************)
(* Properties of the order of the report.                                  *)
(***************************************************************************)
\* the last name printed in a line of the report, after the "F. " of the
\* first name
LastNameOfLine(row) == SubSeq(row.name, 4, Len(row.name))

\* the lines of a table are in non-decreasing order of last name
LinesInOrder(rows) ==
  \A k, l \in 1..Len(rows) :
     k < l => ~CodePointsBefore(LastNameOfLine(rows[l]), LastNameOfLine(rows[k]))

\* the batters table alone: its lines are ordered by last name
BatterLinesInOrder ==
  ReportIsOpen => LinesInOrder(printStatsWindow[1].statsText.batters.rows)

\* C15: in the report the lines of the batters table and the lines of the
\* pitchers table are each ordered by last name.
C15_ReportLinesInOrder ==
  ReportIsOpen =>
    /\ LinesInOrder(printStatsWindow[1].statsText.batters.rows)
    /\ LinesInOrder(printStatsWindow[1].statsText.pitchers.rows)

(***************************************************************************)
(* Properties of the operations without a team.                            *)
(***************************************************************************)
\* C16: while the team selector names no stored team, saveData and
\* openPrintStats each show a message and abort: the store is unchanged, no
\* statement is run and no report window is opened.
C16_NoTeamAborts ==
  [][~TeamIsSelected =>
       /\ (lastOp'.handler = "saveData" =>
             /\ store' = store
             /\ printStatsWindow' = printStatsWindow
             /\ lastOp'.sql = <<>>
             /\ lastOp'.message = "No team selected. Operation aborted."
             /\ ~lastOp'.raised)
       /\ (lastOp'.handler = "openPrintStats" =>
             /\ store' = store
             /\ printStatsWindow' = printStatsWindow
             /\ lastOp'.sql = <<>>
             /\ lastOp'.message = "No Team Selected"
             /\ ~lastOp'.raised)]_vars

\* Add/Update was clicked on a loaded player after the selector went back to
\* "Select Team", over a store with records
C16_Witness ==
  /\ ~TeamIsSelected
  /\ lastOp.handler = "saveData"
  /\ lastOp.message = "No team selected. Operation aborted."
  /\ hitterForm.first_name # <<>>
  /\ Len(hitters) + Len(pitchers) > 0

(***************************************************************************)
(* Properties of the startup.                                              *)
(***************************************************************************)
\* C17: when opening the store fails at startup the failure is reported and
\* __init__ completes with a null store: table creation, schema update and
\* team listing are skipped by a null check, none of them raises.
C17_StartupSurvivesNoStore ==
  (/\ lastOp.handler = "__init__"
   /\ lastOp.message = "Error connecting to database") => ~lastOp.raised

(***************************************************************************)
(* Properties of the mistyped counters.                                    *)
(***************************************************************************)
\* the text is no integer literal (for a counter) and no number (for ip, ipa)
IsMalformed(c, text) ==
  IF c \in PitcherFloatFields
  THEN text \notin DOMAIN FloatOfText
  ELSE text \notin DOMAIN IntOfText

\* the sheets of the hitter form with a malformed text in counter field c
MalformedHitterForms(c) ==
  {[TypedHitterForm(MistypedPlayer, HitterSheetFull) EXCEPT ![c] = text] :
     text \in {t \in MistypedTexts : IsMalformed(c, t)}}

\* the sheets of the pitcher form with a malformed text in counter field c
MalformedPitcherForms(c) ==
  {[TypedPitcherForm(MistypedPlayer, PitcherSheetFull) EXCEPT ![c] = text] :
     text \in {t \in MistypedTexts : IsMalformed(c, t)}}

\* saveData refused the submission by its zero guard
RefusedAsNull ==
  /\ store' = store
  /\ lastOp'.sql = <<>>
  /\ lastOp'.message = "No update made due to null input values."

\* C18, as stated: a counter field text that is no valid integer, or no
\* valid number for the innings fields, is taken as 0 by saveData and the
\* save proceeds, it is not rejected.
C18_MalformedSaved ==
  [][lastOp'.handler = "saveData" =>
       /\ roleSelector = "Hitter" =>
            \A c \in MistypedHitterFields : \A hf \in MalformedHitterForms(c) :
               saveData(hf, pitcherForm) =>
                 /\ lastOp'.message # "No update made due to null input values."
                 /\ \A i \in StoredUnder(hitters', hf) : hitters'[i][c] = 0
       /\ roleSelector = "Pitcher" =>
            \A c \in MistypedPitcherFields : \A pf \in MalformedPitcherForms(c) :
               saveData(hitterForm, pf) =>
                 /\ lastOp'.message # "No update made due to null input values."
                 /\ \A i \in StoredUnder(pitchers', pf) : pitchers'[i][c] = 0]_vars

\* C18, amended: a counter field text that is no valid integer, or no valid
\* number for the innings fields, is taken as 0 by saveData, which treats it
\* as a typed 0: when the stored record of the player has a non-zero value
\* in that field the zero guard refuses the whole save with its message,
\* otherwise the save is not refused for that field and a record that is
\* written has 0 in that field.
C18_MalformedTakenAsZero ==
  [][lastOp'.handler = "saveData" =>
       /\ roleSelector = "Hitter" =>
            \A c \in MistypedHitterFields : \A hf \in MalformedHitterForms(c) :
               saveData(hf, pitcherForm) =>
                 /\ SubmittedValue(hf, c) = 0
                 /\ (\E i \in StoredUnder(hitters, hf) : hitters[i][c] # 0)
                      => RefusedAsNull
                 /\ lastOp'.sql # <<>> =>
                      /\ StoredUnder(hitters', hf) # {}
                      /\ \A i \in StoredUnder(hitters', hf) : hitters'[i][c] = 0
       /\ roleSelector = "Pitcher" =>
            \A c \in MistypedPitcherFields : \A pf \in MalformedPitcherForms(c) :
               saveData(hitterForm, pf) =>
                 /\ SubmittedValue(pf, c) = 0
                 /\ (\E i \in StoredUnder(pitchers, pf) : pitchers[i][c] # 0)
                      => RefusedAsNull
                 /\ lastOp'.sql # <<>> =>
                      /\ StoredUnder(pitchers', pf) # {}
                      /\ \A i \in StoredUnder(pitchers', pf) : pitchers'[i][c] = 0]_vars

\* a hitter sheet with letters for the hits was refused by the zero guard,
\* over a record that an earlier sheet with a malformed games field wrote
C18_Witness ==
  /\ lastOp.handler = "saveData"
  /\ lastOp.message = "No update made due to null input values."
  /\ roleSelector = "Hitter"
  /\ hitterForm.hits = "abc"
  /\ \E i \in StoredUnder(hitters, hitterForm) :
        hitters[i].games = 0 /\ hitters[i].hits # 0

\* C19: every counter of every stored hitter record is a non-negative
\* integer, whatever texts were submitted.
C19_HitterCountersNonNegative ==
  \A i \in 1..Len(hitters) : \A c \in Range(HitterCounters) :
     hitters[i][c] \in Nat

(***************************************************************************)
(* Properties of the team names.                                           *)
(***************************************************************************)
\* no two rows of teams have the same name
TeamNamesUnique ==
  \A i, j \in 1..Len(teams) : teams[i].team_name = teams[j].team_name => i = j

\* C20: in every state reached by createTeam, deleteTeam and initDatabase no
\* two teams have the same name, and createTeam with a name that is in the
\* store warns and writes nothing.
C20_TeamNamesUnique ==
  /\ []TeamNamesUnique
  /\ [][\A team_name \in TeamNames :
          (/\ \E t \in Range(teams) : t.team_name = team_name
           /\ createTeam(team_name))
          => /\ store' = store
             /\ lastOp'.sql = <<>>
             /\ lastOp'.message = "Duplicate Team"]_vars

\* createTeam was just refused for a name of the store, next to another team
C20_Witness ==
  /\ lastOp.handler = "createTeam"
  /\ lastOp.message = "Duplicate Team"
  /\ Len(teams) = 2

(***************************************************************************)
(* Properties of the ownership of the records.                             *)
(***************************************************************************)
\* C21: the team reference of every hitter and pitcher record is the id of
\* exactly one team of the store: no record outlives its team.
C21_RecordsBelongToTeams ==
  \A r \in Range(hitters) \cup Range(pitchers) :
     Cardinality({i \in 1..Len(teams) : teams[i].id = r.team_id}) = 1

(***************************************************************************)
(* Properties of the click on a player of the list.                        *)
(***************************************************************************)
\* the table of the selected role
RoleTable == IF roleSelector = "Hitter" THEN hitters ELSE pitchers

\* the records of the selected team and role that the query of
\* loadPlayerData finds for item i of the list: the first letter of the
\* first name, whatever its case, and the last name
MatchesOfItem(i) ==
  {k \in 1..Len(RoleTable) :
     /\ \E t \in Range(teams) :
           t.team_name = teamSelector /\ t.id = RoleTable[k].team_id
     /\ LikeInitial(RoleTable[k].first_name, Split(playerList[i])[1][1])
     /\ RoleTable[k].last_name = Split(playerList[i])[2]}

\* C22: a click on a list entry that matches a stored record sets the first
\* name, the last name and the quota field (aba of the hitter form, ipa of
\* the pitcher form) of the form of the role from such a record, leaves
\* every other field of both forms empty and does not modify the store.
C22_LoadSetsNameAndQuota ==
  [][\A i \in 1..Len(playerList) :
       (/\ roleSelector \in {"Hitter", "Pitcher"}
        /\ MatchesOfItem(i) # {}
        /\ loadPlayerData(i))
       => /\ store' = store
          /\ \E k \in MatchesOfItem(i) :
                IF roleSelector = "Hitter"
                THEN /\ pitcherForm' = ClearedPitcherForm
                     /\ hitterForm'.first_name = hitters[k].first_name
                     /\ hitterForm'.last_name = hitters[k].last_name
                     /\ hitterForm'.aba = ToString(hitters[k].aba)
                     /\ \A f \in Range(HitterCounters) \ {"aba"} :
                           hitterForm'[f] = ""
                ELSE /\ hitterForm' = ClearedHitterForm
                     /\ pitcherForm'.first_name = pitchers[k].first_name
                     /\ pitcherForm'.last_name = pitchers[k].last_name
                     /\ pitcherForm'.ipa = FloatText(pitchers[k].ipa)
                     /\ \A f \in Range(PitcherCounters) \ {"ipa"} :
                           pitcherForm'[f] = ""]_vars

\* a pitcher with games on record was clicked: the form holds the name and
\* the innings available, its games field is empty
C22_Witness ==
  /\ lastOp = Op("loadPlayerData", <<>>, "", FALSE)
  /\ roleSelector = "Pitcher"
  /\ pitcherForm.ipa # ""
  /\ pitcherForm.games = ""
  /\ \E k \in StoredUnder(pitchers, pitcherForm) : pitchers[k].games # 0

(***************************************************************************)
(* Properties of the sinks of the report.                                  *)
(***************************************************************************)
\* C23: for an open report window the print preview emits the batter and
\* pitcher tables that Save to File emits, whatever was saved or deleted in
\* the main window since the window was opened.
C23_PreviewEqualsFile ==
  lastOp.handler = "renderPreview" =>
    lastOp.output = printStatsWindow[1].statsText

(***************************************************************************)
(* Properties of the rows of the report.                                   *)
(***************************************************************************)
\* the number of records of a table that refer to the reported team
RecordsOfReportedTeam(table) ==
  Cardinality({i \in 1..Len(table) :
                 table[i].team_id = printStatsWindow[1].team_id})

\* C24: each table of the report has one row per record of the reported
\* team for that role, also for a record saved without a name.
C24_OneRowPerRecord ==
  ReportIsOpen =>
    /\ Len(printStatsWindow[1].statsText.batters.rows)
         = RecordsOfReportedTeam(hitters)
    /\ Len(printStatsWindow[1].statsText.pitchers.rows)
         = RecordsOfReportedTeam(pitchers)

(***************************************************************************)
(* Properties of the schema.                                               *)
(***************************************************************************)
\* C25: the startup over an empty store completes without error and leaves
\* the tables teams, hitters and pitchers in the store, with every column
\* the application names.
C25_StartupCreatesTables ==
  [][(DOMAIN schema = {} /\ lastOp'.handler = "__init__") =>
       /\ ~lastOp'.raised
       /\ DOMAIN schema' = {"teams", "hitters", "pitchers"}
       /\ \A t \in DOMAIN schema' : FullSchema[t] \subseteq schema'[t]]_vars

(***************************************************************************)
(* Properties of the stored counters over time.                            *)
(***************************************************************************)
\* every record of the table is still in its place after the step, under the
\* same team and name, and each of its counters that was not zero is not zero
StaysNonZero(table, after, columns) ==
  \A i \in 1..Len(table) :
     /\ i <= Len(after)
     /\ after[i].team_id = table[i].team_id
     /\ after[i].first_name = table[i].first_name
     /\ after[i].last_name = table[i].last_name
     /\ \A c \in Range(columns) : table[i][c] # 0 => after[i][c] # 0

C27_SaveAfterLoadWritesNothing ==
  [][(lastOp.handler = "loadPlayerData" /\ lastOp'.handler = "saveData") =>
       (store' = store /\ lastOp'.sql = <<>>)]_vars

\* the records the entries of a refreshed list are built from, in the order
\* of the entries
ListedRecords ==
  LET ids == SelectTeamIds(teams, teamSelector)
      named(r) == r.first_name # <<>> /\ r.last_name # <<>>
  IN  IF ids = <<>> THEN <<>>
      ELSE SelectSeq(SortedByLastName(SelectByTeam(RoleTable, ids[1])), named)

\* C28: a click on an entry of a list that shows the selected team and role
\* loads the player the entry displays: the first-name and last-name fields
\* of the form are the first and last name of the record the entry was
\* built from.
C28_ClickLoadsDisplayedPlayer ==
  [][\A i \in 1..Len(playerList) :
       (/\ roleSelector \in {"Hitter", "Pitcher"}
        /\ playerList = updatePlayerList(teams, hitters, pitchers, teamSelector,
                                         roleSelector)
        /\ loadPlayerData(i))
       => LET form == IF roleSelector = "Hitter" THEN hitterForm' ELSE pitcherForm'
          IN  /\ form.first_name = ListedRecords[i].first_name
              /\ form.last_name = ListedRecords[i].last_name]_vars

(***************************************************************************)
(* Properties of the refresh of the player list.                           *)
(***************************************************************************)
\* C29: in every state the player list is the listing of the selected team
\* and role over the store as it is.
C29_ListIsCurrent ==
  playerList = updatePlayerList(teams, hitters, pitchers, teamSelector,
                                roleSelector)

(***************************************************************************)
(* The frame of saveData.                                                  *)
(***************************************************************************)
\* the positions of after that are new or hold another row than in table
ChangedRows(table, after) ==
  {i \in 1..Len(after) : i > Len(table) \/ after[i] # table[i]}

\* after is table with at most one row written, and a written row is keyed
\* by the selected team and the name of the form
WritesOnlyKeyed(table, after, form) ==
  /\ Len(after) >= Len(table)
  /\ Cardinality(ChangedRows(table, after)) <= 1
  /\ \A i \in ChangedRows(table, after) :
        /\ \E t \in Range(teams) :
              t.team_name = teamSelector /\ t.id = after[i].team_id
        /\ after[i].first_name = form.first_name
        /\ after[i].last_name = form.last_name

\* C30: saveData for a role, the selected team and the submitted name writes
\* at most the one record of that role keyed by that team and name: the
\* table of the other role, the teams, and every record of another team or
\* another name are the same before and after, whether the call inserts,
\* updates, is rejected or writes nothing.
C30_SaveDataFrame ==
  [][lastOp'.handler = "saveData" =>
       /\ teams' = teams
       /\ roleSelector # "Hitter" => hitters' = hitters
       /\ roleSelector # "Pitcher" => pitchers' = pitchers
       /\ roleSelector = "Hitter" =>
            \A hf \in HitterSubmissions :
               saveData(hf, pitcherForm) => WritesOnlyKeyed(hitters, hitters', hf)
       /\ roleSelector = "Pitcher" =>
            \A pf \in PitcherSubmissions :
               saveData(hitterForm, pf) => WritesOnlyKeyed(pitchers, pitchers', pf)]_vars

\* an UPDATE has just rewritten a pitcher record while a pitcher of the same
\* name in another team keeps other counters
C30_Witness ==
  /\ lastOp.handler = "saveData"
  /\ lastOp.sql = <<"UPDATE pitchers">>
  /\ Len(pitchers) = 2
  /\ pitchers[1].team_id # pitchers[2].team_id
  /\ pitchers[1].first_name = pitchers[2].first_name
  /\ pitchers[1].last_name = pitchers[2].last_name
  /\ \E c \in Range(PitcherCounters) : pitchers[1][c] # pitchers[2][c]

====
